---- MODULE Spec2Model ----
(***************************************************************************)
(* Request handlers of the chat / journey edge functions, modelled as a    *)
(* state machine over the conversation store.  Every action is the code of *)
(* one handler between two awaits: it performs the awaited call (identity  *)
(* service, store, completion API) with one of the outcomes that call can  *)
(* have, and then the synchronous code up to the next await or response.   *)
(***************************************************************************)
EXTENDS Integers, Sequences, FiniteSets, TLC

VARIABLES
    chat_session,          \* table chat_session: set of rows
    chat_message,          \* table chat_message: rows in insertion order
    user_journey,          \* table user_journey: set of rows
    user_journey_message,  \* table user_journey_message: rows in insertion order
    nextId,                \* next identifier the store hands out
    now,                   \* the store's clock
    started,               \* number of requests received so far
    req                    \* per worker: the request it handles, its locals (with the prompt and
                           \* profile rows its lookups found), the calls it made, its response

vars == <<chat_session, chat_message, user_journey, user_journey_message,
          nextId, now, started, req>>

store == <<chat_session, chat_message, user_journey, user_journey_message>>

-----------------------------------------------------------------------------
(* Bounds of the model *)

MaxRequests == 2       \* requests received in one behaviour

MaxConcurrentRequests == 2   \* requests received in one behaviour with two workers

(* Program constants *)

MESSAGE_HISTORY_LIMIT == 40

DEFAULT_NAME_FALLBACK == "there"

SYSTEM_PROMPT_KEY == <<"system_prompt">>

-----------------------------------------------------------------------------
(* Values *)

(* The workers serving requests: one, or with concurrent requests two *)
Slots == DOMAIN req

Workers == {1}

ConcurrentWorkers == {1, 2}

Users == {"A", "B"}

Handlers == {"chat", "journey", "resume", "kickoff", "newchat", "legacy", "list", "today", "resolve"}

Methods == {"OPTIONS", "POST", "GET"}

Outcomes == {"ok", "err", "throw"}

(* The values of the Authorization header: absent, another scheme, a bearer token *)
AuthHeaders == {"none", "Basic", "Bearer"}

(* The journey keys a client asks for *)
Keys == {<<"k1">>, <<"k2">>}

(* Length of a UTC day on the store's clock *)
TicksPerDay == 20

(* The users whose tokens the requests carry *)
Callers == {"A"}

(* The texts a completion can carry: empty, blank, and texts with blanks around *)
Texts == {<<>>, <<" ">>, <<"x">>, <<" ", "x", " ">>}

NoHandle == 0

UnknownId == 99

(* The number of messages conversation 1 holds at the start: none, or a full window *)
PreLens == {0, MESSAGE_HISTORY_LIMIT}

Min(a, b) == IF a < b THEN a ELSE b

SetMin(S) == CHOOSE x \in S : \A y \in S : x <= y

SetMax(S) == CHOOSE x \in S : \A y \in S : y <= x

Last(s) == s[Len(s)]

SeqToSet(s) == {s[i] : i \in 1..Len(s)}

Perms(S) == {p \in [1..Cardinality(S) -> S] : \A i, j \in 1..Cardinality(S) : p[i] = p[j] => i = j}

(* String.prototype.trim on a text: strips the blanks at both ends *)
RECURSIVE TrimStart(_)
TrimStart(t) == IF t # <<>> /\ t[1] = " " THEN TrimStart(Tail(t)) ELSE t

RECURSIVE TrimEnd(_)
TrimEnd(t) == IF t # <<>> /\ t[Len(t)] = " " THEN TrimEnd(SubSeq(t, 1, Len(t) - 1)) ELSE t

Trim(t) == TrimEnd(TrimStart(t))

(* A message content: a string, the object {text: ...}, a template with a
   name substituted, or undefined *)
Str(t) == [kind |-> "str", text |-> t, name |-> ""]

Obj(t) == [kind |-> "obj", text |-> t, name |-> ""]

Undefined == [kind |-> "undefined", text |-> <<>>, name |-> ""]

Err(msg) == [error |-> msg, detail |-> <<>>]

ErrKey(msg, key) == [error |-> msg, detail |-> key]

NoBody == [empty |-> TRUE]

-----------------------------------------------------------------------------
(* The store.  A prompt key is a string, written as the sequence of its parts *)

(* The store's per-conversation ordinal counter: one more than the highest
   ordinal the conversation holds *)
NextOrdinal(ordinals) == IF ordinals = {} THEN 1 ELSE SetMax(ordinals) + 1

ChatOrdinals(sid) == {chat_message[i].ordinal : i \in {j \in 1..Len(chat_message) : chat_message[j].session_id = sid}}

JourneyOrdinals(jid) == {user_journey_message[i].ordinal : i \in {j \in 1..Len(user_journey_message) : user_journey_message[j].user_journey_id = jid}}

(* NewChatMessage with the ordinal counted per role instead of per conversation *)
MutNewChatMessage(sid, uid, role, content) ==
    [id |-> nextId, session_id |-> sid, user_id |-> uid, role |-> role, content |-> content,
     ordinal |-> NextOrdinal({chat_message[i].ordinal : i \in {j \in 1..Len(chat_message) :
                                 chat_message[j].session_id = sid /\ chat_message[j].role = role}}),
     created_at |-> now]

(* db.from("chat_message").insert({...}): id, ordinal and created_at are the store's *)
NewChatMessage(sid, uid, role, content) ==
    [id |-> nextId, session_id |-> sid, user_id |-> uid, role |-> role, content |-> content,
     ordinal |-> NextOrdinal(ChatOrdinals(sid)), created_at |-> now]

NewJourneyMessage(jid, uid, role, content) ==
    [id |-> nextId, user_journey_id |-> jid, user_id |-> uid, role |-> role, content |-> content,
     ordinal |-> NextOrdinal(JourneyOrdinals(jid)), created_at |-> now]

(* .order("created_at", { ascending: true }): every order of the rows that is
   ascending in created_at; rows with equal created_at come in any order *)
OrderByCreatedAt(rows) ==
    LET order[rs \in SUBSET rows] ==
            IF rs = {} THEN {<<>>}
            ELSE LET t == SetMin({r.created_at : r \in rs})
                     first == {r \in rs : r.created_at = t}
                 IN  {p \o rest : p \in Perms(first), rest \in order[rs \ first]}
    IN  order[rows]

(* .limit(n) *)
Limit(s, n) == SubSeq(s, 1, Min(n, Len(s)))

(* .select("id, content, role, created_at") *)
HistoryColumns(s) == [i \in 1..Len(s) |-> [id |-> s[i].id, content |-> s[i].content, role |-> s[i].role, created_at |-> s[i].created_at]]

(* The history query of the handlers: the rows of one conversation ordered by
   created_at ascending, cut to the window *)
HistoryQuery(rows) == {HistoryColumns(Limit(s, MESSAGE_HISTORY_LIMIT)) : s \in OrderByCreatedAt(rows)}

ChatRows(sid) == {chat_message[i] : i \in {j \in 1..Len(chat_message) : chat_message[j].session_id = sid}}

JourneyRows(jid) == {user_journey_message[i] : i \in {j \in 1..Len(user_journey_message) : user_journey_message[j].user_journey_id = jid}}

(* .single(): the row when exactly one row matches, otherwise an error and no data *)
Single(rows) == IF Cardinality(rows) = 1 THEN <<CHOOSE x \in rows : TRUE>> ELSE <<>>

-----------------------------------------------------------------------------
(* Initial state: user A owns session 1 and journey 1, each holding n
   messages written by earlier requests; user B owns session 2 and journey 2 *)

SeedRole(i) == IF i % 2 = 1 THEN "user" ELSE "assistant"

(* The created_at of the i-th of n messages; with a tie the last two were
   written within one reading of the store's clock *)
SeedStamp(i, n, tie) == IF tie /\ i = n THEN n - 1 ELSE i

SeedChat(n, tie) ==
    [i \in 1..(n + 1) |->
        IF i <= n
        THEN [id |-> i, session_id |-> 1, user_id |-> "A", role |-> SeedRole(i),
              content |-> Str(<<"x">>), ordinal |-> i, created_at |-> SeedStamp(i, n, tie)]
        ELSE [id |-> i, session_id |-> 2, user_id |-> "B", role |-> "user",
              content |-> Str(<<"s">>), ordinal |-> 1, created_at |-> 1]]

SeedJourney(n, tie) ==
    [i \in 1..(n + 1) |->
        IF i <= n
        THEN [id |-> i, user_journey_id |-> 1, user_id |-> "A", role |-> SeedRole(i),
              content |-> Str(<<"x">>), ordinal |-> i, created_at |-> SeedStamp(i, n, tie)]
        ELSE [id |-> i, user_journey_id |-> 2, user_id |-> "B", role |-> "user",
              content |-> Str(<<"s">>), ordinal |-> 1, created_at |-> 1]]

Idle ==
    [h |-> "none", pc |-> "idle", method |-> "none", auth |-> "none", sent |-> "none", userId |-> "none",
     handle |-> NoHandle, content |-> <<>>, conv |-> <<>>, userMsg |-> <<>>,
     prompts |-> {}, profile |-> <<>>, preferredName |-> <<>>, systemPrompt |-> <<>>, userPrompt |-> <<>>,
     dbMessages |-> <<>>, groqMessages |-> <<>>, aiResponse |-> <<>>,
     groqOk |-> FALSE, groqContent |-> <<>>, messageText |-> <<>>,
     sessionId |-> NoHandle, key |-> <<>>, found |-> <<>>, msg |-> <<>>, ops |-> <<>>, status |-> 0, body |-> NoBody,
     pre |-> [chat |-> 0, journey |-> 0, sessions |-> {}, journeys |-> {}], kept |-> {}]

Init ==
    \E n \in PreLens, tie \in BOOLEAN :
        /\ tie => n > 1
        /\ chat_session = {[id |-> 1, user_id |-> "A", created_at |-> 0],
                           [id |-> 2, user_id |-> "B", created_at |-> 0]}
        /\ chat_message = SeedChat(n, tie)
        /\ user_journey = {[id |-> 1, user_id |-> "A", journey_key |-> <<"k1">>, is_active |-> TRUE],
                           [id |-> 2, user_id |-> "B", journey_key |-> <<"k1">>, is_active |-> TRUE]}
        /\ user_journey_message = SeedJourney(n, tie)
        /\ nextId = n + 3
        /\ now = n + 1
        /\ started = 0
        /\ req = [s \in Workers |-> Idle]

-----------------------------------------------------------------------------
(* Steps common to the handlers *)

Respond(r, st, bd) == [r EXCEPT !.pc = "done", !.status = st, !.body = bd]

(* The calls a request has made so far: what the step is, the kind of call,
   the table and row it addresses, how the call ended and whether the
   handler's check of its result passed *)
Log(r, what, kind, table, target, res, ok) ==
    [r EXCEPT !.ops = Append(@, [what |-> what, kind |-> kind, table |-> table, target |-> target,
                                 res |-> res, ok |-> ok])]

(* A catch block that logs the exception and returns nothing *)
MutInternalError(r) == [r EXCEPT !.pc = "unanswered"]

(* catch (error) { ... return 500 { error: "Internal server error" } } *)
InternalError(r) == Respond(r, 500, Err("Internal server error"))

(* Bookkeeping for the properties, not read by any handler: what the store
   held when the request arrived, and the user turns that earlier reply
   requests committed before they failed *)
Snapshot ==
    [chat |-> Len(chat_message), journey |-> Len(user_journey_message),
     sessions |-> {x.id : x \in chat_session}, journeys |-> {x.id : x \in user_journey}]

Kept(r) ==
    r.kept \cup
    (IF r.h \in {"chat", "journey"} /\ r.userMsg # <<>> /\ r.status # 200
     THEN {[h |-> r.h, handle |-> r.handle, id |-> r.userMsg[1].id]} ELSE {})

(* req.method !== "POST"; the today's-session handler serves GET *)
Allowed(h) == IF h = "today" THEN "GET" ELSE "POST"

(* RequestCheck accepting any Authorization header that is present *)
MutRequestCheckAnyScheme(h, m, a) ==
    IF m = "OPTIONS" THEN 204
    ELSE IF m # Allowed(h) THEN 405
    ELSE IF a = "none" THEN 401
    ELSE 0

(* RequestCheck with the preflight answered only after the credential check *)
MutRequestCheckLatePreflight(h, m, a) ==
    IF a # "Bearer" THEN 401
    ELSE IF m = "OPTIONS" THEN 204
    ELSE IF m # Allowed(h) THEN 405
    ELSE 0

(* The checks made before the first awaited call, as the status they answer
   with (0: the request goes on): preflight, method, Authorization header *)
RequestCheck(h, m, a) ==
    IF m = "OPTIONS" THEN 204
    ELSE IF m # Allowed(h) THEN 405
    ELSE IF a # "Bearer" THEN 401
    ELSE 0

(* The handlers that read no request body *)
NoBodyHandlers == {"newchat", "legacy", "list", "today"}

(* The bodies a client sends, by what req.json() and the required-field check
   make of them: not JSON, a required field missing, all fields present *)
BodyKinds(h) == IF h \in NoBodyHandlers THEN {"none"} ELSE {"invalid", "missing", "complete"}

(* A request to one of the handlers hs arrives at a free worker: preflight,
   method check, Authorization header check *)
Arrive(s, hs, ms, hdrs, max) ==
    /\ req[s].pc \in {"idle", "done"}
    /\ started < max
    /\ started' = started + 1
    /\ \E h \in hs, m \in ms, a \in hdrs : \E k \in BodyKinds(h) :
          LET r == [Idle EXCEPT !.h = h, !.method = m, !.auth = a, !.sent = k,
                                !.pre = Snapshot, !.kept = Kept(req[s])]
              c == RequestCheck(h, m, a)
          IN  req' = [req EXCEPT ![s] =
                  IF c = 204 THEN Respond(r, 204, NoBody)
                  ELSE IF c = 405 THEN Respond(r, 405, Err("Method not allowed"))
                  ELSE IF c = 401 THEN Respond(r, 401, Err("Unauthorized"))
                  ELSE [r EXCEPT !.pc = "auth"]]
    /\ UNCHANGED <<store, nextId, now>>

Receive(s) == Arrive(s, Handlers, Methods, AuthHeaders, MaxRequests)

(* The request bodies a client can send to a handler *)
Bodies(h) ==
    LET handles == {NoHandle, UnknownId} \cup
                   (IF h \in {"chat", "resume"} THEN {x.id : x \in chat_session}
                    ELSE {x.id : x \in user_journey})
    IN  IF h \in {"chat", "journey"}
        THEN {[handle |-> i, content |-> c, key |-> <<>>] : i \in handles, c \in {<<>>, <<"h">>}}
        ELSE IF h = "resolve"
        THEN {[handle |-> NoHandle, content |-> <<>>, key |-> k] : k \in {<<>>} \cup Keys}
        ELSE {[handle |-> i, content |-> <<>>, key |-> <<>>] : i \in handles}

MissingFields(h, b) ==
    IF h \in {"chat", "journey"} THEN b.handle = NoHandle \/ b.content = <<>>
    ELSE IF h = "resolve" THEN b.key = <<>>
    ELSE b.handle = NoHandle

(* The first step after the checks *)
FirstStep(h) ==
    IF h \in {"newchat", "legacy"} THEN "profile"
    ELSE IF h = "list" THEN "catalog"
    ELSE IF h = "today" THEN "session"
    ELSE IF h = "resolve" THEN "lookup"
    ELSE "verify"

MissingFieldsError(h) == IF h = "resume" THEN "Missing chat_session_id" ELSE "Missing required fields"

(* The bodies of one kind *)
BodiesOfKind(h, k) == {b \in Bodies(h) : MissingFields(h, b) = (k = "missing")}

(* Authenticate reading the body and testing its fields before the token *)
MutAuthenticate(s) ==
    /\ req[s].pc = "auth"
    /\ \E out \in Callers \cup {"rejected", "throw"} :
          LET r == Log(req[s], "auth", "auth", "auth", NoHandle, out, out \in Callers)
          IN  \/ /\ r.sent = "invalid"
                 /\ req' = [req EXCEPT ![s] = InternalError(r)]
              \/ /\ r.sent = "missing"
                 /\ req' = [req EXCEPT ![s] = Respond(r, 400, Err(MissingFieldsError(r.h)))]
              \/ /\ r.sent \notin {"invalid", "missing"} /\ out = "throw"
                 /\ req' = [req EXCEPT ![s] = InternalError(r)]
              \/ /\ r.sent \notin {"invalid", "missing"} /\ out = "rejected"
                 /\ req' = [req EXCEPT ![s] = Respond(r, 401, Err("Unauthorized"))]
              \/ /\ out \in Callers
                 /\ r.sent = "none"
                 /\ req' = [req EXCEPT ![s] = [r EXCEPT !.userId = out, !.pc = FirstStep(r.h)]]
              \/ /\ out \in Callers
                 /\ r.sent = "complete"
                 /\ \E b \in BodiesOfKind(r.h, "complete") :
                        req' = [req EXCEPT ![s] =
                            [r EXCEPT !.userId = out, !.handle = b.handle, !.key = b.key,
                                      !.content = b.content, !.pc = FirstStep(r.h)]]
    /\ UNCHANGED <<store, nextId, now, started>>

(* supabase.auth.getUser(token), then req.json() and the required-field check *)
Authenticate(s) ==
    /\ req[s].pc = "auth"
    /\ \E out \in Callers \cup {"rejected", "throw"} :
          LET r == Log(req[s], "auth", "auth", "auth", NoHandle, out, out \in Callers)
          IN  \/ /\ out = "throw"
                 /\ req' = [req EXCEPT ![s] = InternalError(r)]
              \/ /\ out = "rejected"
                 /\ req' = [req EXCEPT ![s] = Respond(r, 401, Err("Unauthorized"))]
              \/ /\ out \in Callers
                 /\ r.sent = "none"
                 /\ req' = [req EXCEPT ![s] = [r EXCEPT !.userId = out, !.pc = FirstStep(r.h)]]
              \/ /\ out \in Callers
                 /\ r.sent = "invalid"
                 /\ req' = [req EXCEPT ![s] = InternalError([r EXCEPT !.userId = out])]
              \/ /\ out \in Callers
                 /\ r.sent \in {"missing", "complete"}
                 /\ \E b \in BodiesOfKind(r.h, r.sent) :
                        req' = [req EXCEPT ![s] =
                            IF MissingFields(r.h, b)
                            THEN Respond([r EXCEPT !.userId = out], 400, Err(MissingFieldsError(r.h)))
                            ELSE [r EXCEPT !.userId = out, !.handle = b.handle, !.key = b.key,
                                           !.content = b.content, !.pc = FirstStep(r.h)]]
    /\ UNCHANGED <<store, nextId, now, started>>

-----------------------------------------------------------------------------
(* Steps shared by the handlers that call the completion API *)

(* The states the externally managed row of one prompt key can be in *)
PromptRowsFor(key, text) ==
    {{},
     {[key |-> key, content |-> text, is_active |-> TRUE]},
     {[key |-> key, content |-> text, is_active |-> FALSE]},
     {[key |-> key, content |-> <<>>, is_active |-> TRUE]}}

(* A prompt lookup: the rows the table holds and how the call ends (a call
   that returns an error or throws delivers no rows, whatever the table holds) *)
PromptLookups(tables) ==
    {[out |-> "ok", table |-> t] : t \in tables} \cup {[out |-> o, table |-> {}] : o \in {"err", "throw"}}

(* SelectPrompt without the filter on is_active *)
MutSelectPrompt(table, key, out) ==
    IF out = "ok" THEN Single({p \in table : p.key = key}) ELSE <<>>

(* .from("prompts").select("content").eq("key", key).eq("is_active", true).single() *)
SelectPrompt(table, key, out) ==
    IF out = "ok" THEN Single({p \in table : p.key = key /\ p.is_active}) ELSE <<>>

(* !promptData?.content *)
NoContent(promptData) == promptData = <<>> \/ promptData[1].content = <<>>

(* What the completion API can answer: the content of choices[0].message,
   absent or a text *)
Completions == {<<>>} \cup {<<t>> : t \in Texts}

(* ExtractText without the trim() *)
MutExtractText(c) == IF c = <<>> THEN <<>> ELSE c[1]

(* groqData.choices?.[0]?.message?.content?.trim(); an absent content and an
   empty text are both falsy *)
ExtractText(c) == IF c = <<>> THEN <<>> ELSE Trim(c[1])

(* CallGroq going on to the next step whatever the status of the answer *)
MutCallGroqIgnoreStatus(r, out, c, next) ==
    LET ai == ExtractText(c)
        r1 == Log([r EXCEPT !.groqOk = (out = "ok"), !.groqContent = c],
                  "complete", "llm", "groq", NoHandle, out, out = "ok" /\ ai # <<>>)
    IN  IF out = "throw" THEN InternalError(r1)
        ELSE IF out = "ok" /\ ai = <<>> THEN Respond(r1, 500, Err("GROQ returned empty response"))
        ELSE [r1 EXCEPT !.aiResponse = ai, !.pc = next]

(* CallGroq without the check for an empty answer *)
MutCallGroq(r, out, c, next) ==
    LET ai == ExtractText(c)
        r1 == Log([r EXCEPT !.groqOk = (out = "ok"), !.groqContent = c],
                  "complete", "llm", "groq", NoHandle, out, out = "ok" /\ ai # <<>>)
    IN  IF out = "throw" THEN InternalError(r1)
        ELSE IF out # "ok" THEN Respond(r1, 500, Err("GROQ API request failed"))
        ELSE [r1 EXCEPT !.aiResponse = ai, !.pc = next]

(* fetch(GROQ) and the checks on its answer; next is the step that follows *)
CallGroq(r, out, c, next) ==
    LET ai == ExtractText(c)
        r1 == Log([r EXCEPT !.groqOk = (out = "ok"), !.groqContent = c],
                  "complete", "llm", "groq", NoHandle, out, out = "ok" /\ ai # <<>>)
    IN  IF out = "throw" THEN InternalError(r1)
        ELSE IF out # "ok" THEN Respond(r1, 500, Err("GROQ API request failed"))
        ELSE IF ai = <<>> THEN Respond(r1, 500, Err("GROQ returned empty response"))
        ELSE [r1 EXCEPT !.aiResponse = ai, !.pc = next]

GroqAnswers == {<<"throw", <<>>>>, <<"notok", <<>>>>} \cup {<<"ok", c>> : c \in Completions}

(* ReplyMessages with the system prompt appended after the history *)
MutReplyMessages(systemPrompt, dbMessages) ==
    [i \in 1..Len(dbMessages) |-> [role |-> dbMessages[i].role, content |-> dbMessages[i].content]] \o
    <<[role |-> "system", content |-> Str(systemPrompt)]>>

(* The message list of the reply handlers: system prompt, then the history *)
ReplyMessages(systemPrompt, dbMessages) ==
    <<[role |-> "system", content |-> Str(systemPrompt)]>> \o
    [i \in 1..Len(dbMessages) |-> [role |-> dbMessages[i].role, content |-> dbMessages[i].content]]

-----------------------------------------------------------------------------
(* Reply in a chat session: llm-chat-handler *)

(* AccessDenied testing the error of the lookup only *)
MutAccessDeniedErrorOnly(error, data, userId) == error

(* AccessDenied without the comparison of the owner with the caller *)
MutAccessDenied(error, data, userId) == error \/ data = <<>>

(* sessionError || !sessionData || sessionData.user_id !== userId *)
AccessDenied(error, data, userId) == error \/ data = <<>> \/ data[1].user_id # userId

(* ChatVerify going on to the prompt lookup, the user turn never inserted *)
MutChatVerify(s) ==
    /\ req[s].pc = "verify" /\ req[s].h = "chat"
    /\ \E out \in Outcomes :
          LET sessionData == IF out = "ok" THEN Single({x \in chat_session : x.id = req[s].handle}) ELSE <<>>
              sessionError == out = "err" \/ sessionData = <<>>
              denied == AccessDenied(sessionError, sessionData, req[s].userId)
              r == Log(req[s], "verify", "read", "chat_session", req[s].handle, out, out # "throw" /\ ~denied)
          IN  req' = [req EXCEPT ![s] =
                  IF out = "throw" THEN InternalError(r)
                  ELSE IF denied THEN Respond(r, 404, Err("Chat session not found or access denied"))
                  ELSE [r EXCEPT !.conv = sessionData, !.pc = "prompt"]]
    /\ UNCHANGED <<store, nextId, now, started>>

ChatVerify(s) ==
    /\ req[s].pc = "verify" /\ req[s].h = "chat"
    /\ \E out \in Outcomes :
          LET sessionData == IF out = "ok" THEN Single({x \in chat_session : x.id = req[s].handle}) ELSE <<>>
              sessionError == out = "err" \/ sessionData = <<>>
              denied == AccessDenied(sessionError, sessionData, req[s].userId)
              r == Log(req[s], "verify", "read", "chat_session", req[s].handle, out, out # "throw" /\ ~denied)
          IN  req' = [req EXCEPT ![s] =
                  IF out = "throw" THEN InternalError(r)
                  ELSE IF denied THEN Respond(r, 404, Err("Chat session not found or access denied"))
                  ELSE [r EXCEPT !.conv = sessionData, !.pc = "userInsert"]]
    /\ UNCHANGED <<store, nextId, now, started>>

ChatUserInsert(s) ==
    /\ req[s].pc = "userInsert" /\ req[s].h = "chat"
    /\ \E out \in Outcomes :
          LET row == NewChatMessage(req[s].handle, req[s].userId, "user", Str(req[s].content))
              r == Log(req[s], "userInsert", "write", "chat_message", req[s].handle, out, out = "ok")
          IN  \/ /\ out = "ok"
                 /\ chat_message' = Append(chat_message, row)
                 /\ nextId' = nextId + 1
                 /\ now' = now + 1
                 /\ req' = [req EXCEPT ![s] = [r EXCEPT
                        !.userMsg = <<[id |-> row.id, ordinal |-> row.ordinal, created_at |-> row.created_at]>>,
                        !.pc = "prompt"]]
              \/ /\ out # "ok"
                 /\ req' = [req EXCEPT ![s] =
                        IF out = "throw" THEN InternalError(r)
                        ELSE Respond(r, 500, Err("Failed to save user message"))]
                 /\ UNCHANGED <<chat_message, nextId, now>>
    /\ UNCHANGED <<chat_session, user_journey, user_journey_message, started>>

ChatPrompt(s) ==
    /\ req[s].pc = "prompt" /\ req[s].h = "chat"
    /\ \E q \in PromptLookups(PromptRowsFor(SYSTEM_PROMPT_KEY, <<"p">>)) :
          LET promptData == SelectPrompt(q.table, SYSTEM_PROMPT_KEY, q.out)
              r == Log([req[s] EXCEPT !.prompts = q.table],
                       "prompt", "read", "prompts", NoHandle, q.out, q.out # "throw" /\ ~NoContent(promptData))
          IN  req' = [req EXCEPT ![s] =
                     IF q.out = "throw" THEN InternalError(r)
                     ELSE IF NoContent(promptData) THEN Respond(r, 500, Err("System prompt not found"))
                     ELSE [r EXCEPT !.systemPrompt = promptData[1].content, !.pc = "history"]]
    /\ UNCHANGED <<store, nextId, now, started>>

(* ChatHistory loading the conversation only up to the request's own user turn *)
MutChatHistory(s) ==
    /\ req[s].pc = "history" /\ req[s].h = "chat"
    /\ \E out \in Outcomes,
          dbMessages \in HistoryQuery({x \in ChatRows(req[s].handle) : x.id <= req[s].userMsg[1].id}) :
          LET r == Log(req[s], "history", "read", "chat_message", req[s].handle, out, out = "ok")
          IN  req' = [req EXCEPT ![s] =
                  IF out = "throw" THEN InternalError(r)
                  ELSE IF out = "err" THEN Respond(r, 500, Err("Failed to fetch conversation history"))
                  ELSE [r EXCEPT !.dbMessages = dbMessages,
                                 !.groqMessages = ReplyMessages(r.systemPrompt, dbMessages),
                                 !.pc = "groq"]]
    /\ UNCHANGED <<store, nextId, now, started>>

ChatHistory(s) ==
    /\ req[s].pc = "history" /\ req[s].h = "chat"
    /\ \E out \in Outcomes, dbMessages \in HistoryQuery(ChatRows(req[s].handle)) :
          LET r == Log(req[s], "history", "read", "chat_message", req[s].handle, out, out = "ok")
          IN  req' = [req EXCEPT ![s] =
                  IF out = "throw" THEN InternalError(r)
                  ELSE IF out = "err" THEN Respond(r, 500, Err("Failed to fetch conversation history"))
                  ELSE [r EXCEPT !.dbMessages = dbMessages,
                                 !.groqMessages = ReplyMessages(r.systemPrompt, dbMessages),
                                 !.pc = "groq"]]
    /\ UNCHANGED <<store, nextId, now, started>>

ChatGroq(s) ==
    /\ req[s].pc = "groq" /\ req[s].h = "chat"
    /\ \E a \in GroqAnswers : req' = [req EXCEPT ![s] = CallGroq(req[s], a[1], a[2], "assistantInsert")]
    /\ UNCHANGED <<store, nextId, now, started>>

(* ReplyBody with the row's id taken for its ordinal *)
MutReplyBody(handle, messageData, aiResponse) ==
    [conversation |-> handle, message_id |-> messageData.id, role |-> "assistant",
     content |-> aiResponse, ordinal |-> messageData.id, created_at |-> messageData.created_at]

(* The success body of the reply handlers, built from the row the insert returned *)
ReplyBody(handle, messageData, aiResponse) ==
    [conversation |-> handle, message_id |-> messageData.id, role |-> "assistant",
     content |-> aiResponse, ordinal |-> messageData.ordinal, created_at |-> messageData.created_at]

ChatAssistantInsert(s) ==
    /\ req[s].pc = "assistantInsert" /\ req[s].h = "chat"
    /\ \E out \in Outcomes :
          LET row == NewChatMessage(req[s].handle, req[s].userId, "assistant", Str(req[s].aiResponse))
              messageData == [id |-> row.id, ordinal |-> row.ordinal, created_at |-> row.created_at]
              r == Log(req[s], "assistantInsert", "write", "chat_message", req[s].handle, out, out = "ok")
          IN  \/ /\ out = "ok"
                 /\ chat_message' = Append(chat_message, row)
                 /\ nextId' = nextId + 1
                 /\ now' = now + 1
                 /\ req' = [req EXCEPT ![s] =
                        Respond([r EXCEPT !.msg = <<messageData>>], 200,
                                ReplyBody(r.handle, messageData, r.aiResponse))]
              \/ /\ out # "ok"
                 /\ req' = [req EXCEPT ![s] =
                        IF out = "throw" THEN InternalError(r)
                        ELSE Respond(r, 500, Err("Failed to save message"))]
                 /\ UNCHANGED <<chat_message, nextId, now>>
    /\ UNCHANGED <<chat_session, user_journey, user_journey_message, started>>

-----------------------------------------------------------------------------
(* Reply in a journey: llm-journey-chat-handler *)

JourneyVerify(s) ==
    /\ req[s].pc = "verify" /\ req[s].h = "journey"
    /\ \E out \in Outcomes :
          LET journeyData == IF out = "ok" THEN Single({x \in user_journey : x.id = req[s].handle}) ELSE <<>>
              journeyError == out = "err" \/ journeyData = <<>>
              denied == AccessDenied(journeyError, journeyData, req[s].userId)
              r == Log(req[s], "verify", "read", "user_journey", req[s].handle, out, out # "throw" /\ ~denied)
          IN  req' = [req EXCEPT ![s] =
                  IF out = "throw" THEN InternalError(r)
                  ELSE IF denied THEN Respond(r, 404, Err("Journey not found or access denied"))
                  ELSE [r EXCEPT !.conv = journeyData, !.pc = "userInsert"]]
    /\ UNCHANGED <<store, nextId, now, started>>

JourneyUserInsert(s) ==
    /\ req[s].pc = "userInsert" /\ req[s].h = "journey"
    /\ \E out \in Outcomes :
          LET row == NewJourneyMessage(req[s].handle, req[s].userId, "user", Str(req[s].content))
              r == Log(req[s], "userInsert", "write", "user_journey_message", req[s].handle, out, out = "ok")
          IN  \/ /\ out = "ok"
                 /\ user_journey_message' = Append(user_journey_message, row)
                 /\ nextId' = nextId + 1
                 /\ now' = now + 1
                 /\ req' = [req EXCEPT ![s] = [r EXCEPT
                        !.userMsg = <<[id |-> row.id, ordinal |-> row.ordinal, created_at |-> row.created_at]>>,
                        !.pc = "meta"]]
              \/ /\ out # "ok"
                 /\ req' = [req EXCEPT ![s] =
                        IF out = "throw" THEN InternalError(r)
                        ELSE Respond(r, 500, Err("Failed to save user message"))]
                 /\ UNCHANGED <<user_journey_message, nextId, now>>
    /\ UNCHANGED <<chat_session, chat_message, user_journey, started>>

(* The journeys catalog lookup: its result and its error are not used *)
JourneyMeta(s) ==
    /\ req[s].pc = "meta" /\ req[s].h = "journey"
    /\ \E out \in Outcomes :
          LET r == Log(req[s], "meta", "read", "journeys", NoHandle, out, out = "ok")
          IN  req' = [req EXCEPT ![s] =
                  IF out = "throw" THEN InternalError(r) ELSE [r EXCEPT !.pc = "prompt"]]
    /\ UNCHANGED <<store, nextId, now, started>>

JourneyPrompt(s) ==
    /\ req[s].pc = "prompt" /\ req[s].h = "journey"
    /\ \E q \in PromptLookups(PromptRowsFor(req[s].conv[1].journey_key, <<"p">>)) :
          LET key == req[s].conv[1].journey_key
              promptData == SelectPrompt(q.table, key, q.out)
              r == Log([req[s] EXCEPT !.prompts = q.table],
                       "prompt", "read", "prompts", NoHandle, q.out, q.out # "throw" /\ ~NoContent(promptData))
          IN  req' = [req EXCEPT ![s] =
                     IF q.out = "throw" THEN InternalError(r)
                     ELSE IF NoContent(promptData) THEN Respond(r, 500, ErrKey("Prompt not found for journey: ", key))
                     ELSE [r EXCEPT !.systemPrompt = promptData[1].content, !.pc = "history"]]
    /\ UNCHANGED <<store, nextId, now, started>>

JourneyHistory(s) ==
    /\ req[s].pc = "history" /\ req[s].h = "journey"
    /\ \E out \in Outcomes, dbMessages \in HistoryQuery(JourneyRows(req[s].handle)) :
          LET r == Log(req[s], "history", "read", "user_journey_message", req[s].handle, out, out = "ok")
          IN  req' = [req EXCEPT ![s] =
                  IF out = "throw" THEN InternalError(r)
                  ELSE IF out = "err" THEN Respond(r, 500, Err("Failed to fetch conversation history"))
                  ELSE [r EXCEPT !.dbMessages = dbMessages,
                                 !.groqMessages = ReplyMessages(r.systemPrompt, dbMessages),
                                 !.pc = "groq"]]
    /\ UNCHANGED <<store, nextId, now, started>>

JourneyGroq(s) ==
    /\ req[s].pc = "groq" /\ req[s].h = "journey"
    /\ \E a \in GroqAnswers : req' = [req EXCEPT ![s] = CallGroq(req[s], a[1], a[2], "assistantInsert")]
    /\ UNCHANGED <<store, nextId, now, started>>

JourneyAssistantInsert(s) ==
    /\ req[s].pc = "assistantInsert" /\ req[s].h = "journey"
    /\ \E out \in Outcomes :
          LET row == NewJourneyMessage(req[s].handle, req[s].userId, "assistant", Str(req[s].aiResponse))
              messageData == [id |-> row.id, ordinal |-> row.ordinal, created_at |-> row.created_at]
              r == Log(req[s], "assistantInsert", "write", "user_journey_message", req[s].handle, out, out = "ok")
          IN  \/ /\ out = "ok"
                 /\ user_journey_message' = Append(user_journey_message, row)
                 /\ nextId' = nextId + 1
                 /\ now' = now + 1
                 /\ req' = [req EXCEPT ![s] =
                        Respond([r EXCEPT !.msg = <<messageData>>], 200,
                                ReplyBody(r.handle, messageData, r.aiResponse))]
              \/ /\ out # "ok"
                 /\ req' = [req EXCEPT ![s] =
                        IF out = "throw" THEN InternalError(r)
                        ELSE Respond(r, 500, Err("Failed to save message"))]
                 /\ UNCHANGED <<user_journey_message, nextId, now>>
    /\ UNCHANGED <<chat_session, chat_message, user_journey, started>>

-----------------------------------------------------------------------------
(* The profile lookup of the greeting and kickoff handlers *)

(* What the profiles table can hold for a user: no row, or a row whose
   preferred_name is null, empty or a name *)
ProfileRows == {<<>>, <<[preferred_name |-> <<>>]>>, <<[preferred_name |-> <<"">>]>>, <<[preferred_name |-> <<"Al">>]>>}

ProfileLookups == {[out |-> "ok", row |-> p] : p \in ProfileRows} \cup {[out |-> o, row |-> <<>>] : o \in {"err", "throw"}}

(* try { profile = ...maybeSingle(); preferredName = profile?.preferred_name ?? null } catch {} *)
PreferredName(q) == IF q.out = "ok" /\ q.row # <<>> THEN q.row[1].preferred_name ELSE <<>>

FetchProfile(r, q, next) ==
    [Log(r, "profile", "read", "profiles", NoHandle, q.out, q.out = "ok")
        EXCEPT !.profile = q.row, !.preferredName = PreferredName(q), !.pc = next]

(* NameOrFallback falling back for a null name only (?? in place of ||) *)
MutNameOrFallback(preferredName) ==
    IF preferredName = <<>> THEN DEFAULT_NAME_FALLBACK ELSE preferredName[1]

(* preferredName || DEFAULT_NAME_FALLBACK *)
NameOrFallback(preferredName) ==
    IF preferredName = <<>> \/ preferredName[1] = "" THEN DEFAULT_NAME_FALLBACK ELSE preferredName[1]

(* `... My name is ${preferredName || "there"}`: the user turn of the new-chat handler *)
NewChatGreeting(preferredName) == [kind |-> "new_greeting", text |-> <<>>, name |-> NameOrFallback(preferredName)]

(* The message list of the new-chat handler: system prompt, then the greeting request *)
NewChatMessages(systemPrompt, preferredName) ==
    <<[role |-> "system", content |-> Str(systemPrompt)],
      [role |-> "user", content |-> NewChatGreeting(preferredName)]>>

(* let messageText = "Hello! How can I help today?" *)
FallbackText == <<"Hello! How can I help today?">>

(* `${promptData.content}\n\n${userContext}`, the only message the earlier handler sends *)
LegacyMessages(content, preferredName) ==
    <<[role |-> "system",
       content |-> [kind |-> "full_prompt", text |-> content,
                    name |-> IF preferredName = <<>> \/ preferredName[1] = ""
                             THEN "No preferred name available" ELSE preferredName[1]]]>>

-----------------------------------------------------------------------------
(* Resume / greet an existing chat session *)

ResumeVerify(s) ==
    /\ req[s].pc = "verify" /\ req[s].h = "resume"
    /\ \E out \in Outcomes :
          LET sessionData == IF out = "ok" THEN Single({x \in chat_session : x.id = req[s].handle}) ELSE <<>>
              sessionError == out = "err" \/ sessionData = <<>>
              denied == AccessDenied(sessionError, sessionData, req[s].userId)
              r == Log(req[s], "verify", "read", "chat_session", req[s].handle, out, out # "throw" /\ ~denied)
          IN  req' = [req EXCEPT ![s] =
                  IF out = "throw" THEN InternalError(r)
                  ELSE IF denied THEN Respond(r, 400, Err("Invalid chat session"))
                  ELSE [r EXCEPT !.conv = sessionData, !.pc = "profile"]]
    /\ UNCHANGED <<store, nextId, now, started>>

ResumeProfile(s) ==
    /\ req[s].pc = "profile" /\ req[s].h = "resume"
    /\ \E q \in ProfileLookups : req' = [req EXCEPT ![s] = FetchProfile(req[s], q, "prompt")]
    /\ UNCHANGED <<store, nextId, now, started>>

ResumePrompt(s) ==
    /\ req[s].pc = "prompt" /\ req[s].h = "resume"
    /\ \E q \in PromptLookups(PromptRowsFor(SYSTEM_PROMPT_KEY, <<"p">>)) :
          LET promptData == SelectPrompt(q.table, SYSTEM_PROMPT_KEY, q.out)
              r == Log([req[s] EXCEPT !.prompts = q.table],
                       "prompt", "read", "prompts", NoHandle, q.out, q.out # "throw" /\ ~NoContent(promptData))
          IN  req' = [req EXCEPT ![s] =
                     IF q.out = "throw" THEN InternalError(r)
                     ELSE IF NoContent(promptData) THEN Respond(r, 500, Err("System prompt not found"))
                     ELSE [r EXCEPT !.systemPrompt = promptData[1].content, !.pc = "history"]]
    /\ UNCHANGED <<store, nextId, now, started>>

(* GREETING_MESSAGE_TEMPLATE.replace("{name}", preferredName || DEFAULT_NAME_FALLBACK) *)
ResumeGreeting(preferredName) == [kind |-> "resume_greeting", text |-> <<>>, name |-> NameOrFallback(preferredName)]

(* The message list of the resume handler: system prompt, history, greeting turn *)
ResumeMessages(systemPrompt, dbMessages, preferredName) ==
    <<[role |-> "system", content |-> Str(systemPrompt)]>> \o
    [i \in 1..Len(dbMessages) |-> [role |-> dbMessages[i].role, content |-> dbMessages[i].content]] \o
    <<[role |-> "user", content |-> ResumeGreeting(preferredName)]>>

ResumeHistory(s) ==
    /\ req[s].pc = "history" /\ req[s].h = "resume"
    /\ \E out \in Outcomes, dbMessages \in HistoryQuery(ChatRows(req[s].handle)) :
          LET r == Log(req[s], "history", "read", "chat_message", req[s].handle, out, out = "ok")
          IN  req' = [req EXCEPT ![s] =
                  IF out = "throw" THEN InternalError(r)
                  ELSE IF out = "err" THEN Respond(r, 500, Err("Failed to fetch conversation history"))
                  ELSE [r EXCEPT !.dbMessages = dbMessages,
                                 !.groqMessages = ResumeMessages(r.systemPrompt, dbMessages, r.preferredName),
                                 !.pc = "groq"]]
    /\ UNCHANGED <<store, nextId, now, started>>

ResumeGroq(s) ==
    /\ req[s].pc = "groq" /\ req[s].h = "resume"
    /\ \E a \in GroqAnswers : req' = [req EXCEPT ![s] = CallGroq(req[s], a[1], a[2], "assistantInsert")]
    /\ UNCHANGED <<store, nextId, now, started>>

(* ResumeAssistantInsert storing the greeting turn along with the reply *)
MutResumeAssistantInsert(s) ==
    /\ req[s].pc = "assistantInsert" /\ req[s].h = "resume"
    /\ \E out \in Outcomes :
          LET row == NewChatMessage(req[s].handle, "null", "assistant", Str(req[s].aiResponse))
              greeting == [row EXCEPT !.role = "user", !.content = ResumeGreeting(req[s].preferredName)]
              messageData == [id |-> row.id]
              r == Log(req[s], "assistantInsert", "write", "chat_message", req[s].handle, out, out = "ok")
          IN  \/ /\ out = "ok"
                 /\ chat_message' = chat_message \o
                        <<greeting, [row EXCEPT !.id = row.id + 1, !.ordinal = row.ordinal + 1]>>
                 /\ nextId' = nextId + 2
                 /\ now' = now + 1
                 /\ req' = [req EXCEPT ![s] =
                        Respond([r EXCEPT !.msg = <<messageData>>], 200,
                                [conversation |-> r.handle, message_id |-> messageData.id,
                                 role |-> "assistant", content |-> r.aiResponse])]
              \/ /\ out # "ok"
                 /\ req' = [req EXCEPT ![s] =
                        IF out = "throw" THEN InternalError(r)
                        ELSE Respond(r, 500, Err("Failed to save message"))]
                 /\ UNCHANGED <<chat_message, nextId, now>>
    /\ UNCHANGED <<chat_session, user_journey, user_journey_message, started>>

ResumeAssistantInsert(s) ==
    /\ req[s].pc = "assistantInsert" /\ req[s].h = "resume"
    /\ \E out \in Outcomes :
          LET row == NewChatMessage(req[s].handle, "null", "assistant", Str(req[s].aiResponse))
              messageData == [id |-> row.id]
              r == Log(req[s], "assistantInsert", "write", "chat_message", req[s].handle, out, out = "ok")
          IN  \/ /\ out = "ok"
                 /\ chat_message' = Append(chat_message, row)
                 /\ nextId' = nextId + 1
                 /\ now' = now + 1
                 /\ req' = [req EXCEPT ![s] =
                        Respond([r EXCEPT !.msg = <<messageData>>], 200,
                                [conversation |-> r.handle, message_id |-> messageData.id,
                                 role |-> "assistant", content |-> r.aiResponse])]
              \/ /\ out # "ok"
                 /\ req' = [req EXCEPT ![s] =
                        IF out = "throw" THEN InternalError(r)
                        ELSE Respond(r, 500, Err("Failed to save message"))]
                 /\ UNCHANGED <<chat_message, nextId, now>>
    /\ UNCHANGED <<chat_session, user_journey, user_journey_message, started>>

-----------------------------------------------------------------------------
(* Kickoff of a journey's first turn *)

KickoffVerify(s) ==
    /\ req[s].pc = "verify" /\ req[s].h = "kickoff"
    /\ \E out \in Outcomes :
          LET journeyData == IF out = "ok" THEN Single({x \in user_journey : x.id = req[s].handle}) ELSE <<>>
              journeyError == out = "err" \/ journeyData = <<>>
              denied == AccessDenied(journeyError, journeyData, req[s].userId)
              r == Log(req[s], "verify", "read", "user_journey", req[s].handle, out, out # "throw" /\ ~denied)
          IN  req' = [req EXCEPT ![s] =
                  IF out = "throw" THEN InternalError(r)
                  ELSE IF denied THEN Respond(r, 404, Err("Journey not found or access denied"))
                  ELSE [r EXCEPT !.conv = journeyData, !.pc = "profile"]]
    /\ UNCHANGED <<store, nextId, now, started>>

KickoffProfile(s) ==
    /\ req[s].pc = "profile" /\ req[s].h = "kickoff"
    /\ \E q \in ProfileLookups : req' = [req EXCEPT ![s] = FetchProfile(req[s], q, "meta")]
    /\ UNCHANGED <<store, nextId, now, started>>

KickoffMeta(s) ==
    /\ req[s].pc = "meta" /\ req[s].h = "kickoff"
    /\ \E out \in Outcomes :
          LET r == Log(req[s], "meta", "read", "journeys", NoHandle, out, out = "ok")
          IN  req' = [req EXCEPT ![s] =
                  IF out = "throw" THEN InternalError(r) ELSE [r EXCEPT !.pc = "prompt"]]
    /\ UNCHANGED <<store, nextId, now, started>>

(* `${journey_key}_user` *)
UserKey(key) == key \o <<"_user">>

(* The states of the primary and the auxiliary prompt rows of a journey key *)
KickoffPromptTables(key) ==
    {a \cup b : a \in PromptRowsFor(key, <<"p">>), b \in PromptRowsFor(UserKey(key), <<"u">>)}

(* .from("prompts").select("key, content").in("key", keys).eq("is_active", true) *)
SelectPrompts(table, keys, out) ==
    IF out = "ok" THEN {p \in table : p.key \in keys /\ p.is_active} ELSE {}

(* promptsData.find(p => p.key === key) *)
Find(promptsData, key) ==
    IF \E p \in promptsData : p.key = key THEN <<CHOOSE p \in promptsData : p.key = key>> ELSE <<>>

(* The message list of the kickoff handler: the journey prompt, then userPrompt?.content *)
KickoffMessages(journeyPrompt, userPrompt) ==
    <<[role |-> "system", content |-> Str(journeyPrompt[1].content)],
      [role |-> "user", content |-> IF userPrompt = <<>> THEN Undefined ELSE Str(userPrompt[1].content)]>>

KickoffPrompts(s) ==
    /\ req[s].pc = "prompt" /\ req[s].h = "kickoff"
    /\ \E q \in PromptLookups(KickoffPromptTables(req[s].conv[1].journey_key)) :
          LET key == req[s].conv[1].journey_key
              promptsData == SelectPrompts(q.table, {key, UserKey(key)}, q.out)
              journeyPrompt == Find(promptsData, key)
              userPrompt == Find(promptsData, UserKey(key))
              r == Log([req[s] EXCEPT !.prompts = q.table],
                       "prompt", "read", "prompts", NoHandle, q.out,
                       q.out = "ok" /\ promptsData # {} /\ ~NoContent(journeyPrompt))
          IN  req' = [req EXCEPT ![s] =
                  IF q.out = "throw" THEN InternalError(r)
                  ELSE IF q.out = "err" \/ promptsData = {}
                       THEN Respond(r, 500, ErrKey("Prompts not found for journey: ", key))
                  ELSE IF NoContent(journeyPrompt)
                       THEN Respond(r, 500, ErrKey("Journey prompt not found for: ", key))
                  ELSE [r EXCEPT !.systemPrompt = journeyPrompt[1].content,
                                 !.userPrompt = userPrompt,
                                 !.groqMessages = KickoffMessages(journeyPrompt, userPrompt),
                                 !.pc = "groq"]]
    /\ UNCHANGED <<store, nextId, now, started>>

KickoffGroq(s) ==
    /\ req[s].pc = "groq" /\ req[s].h = "kickoff"
    /\ \E a \in GroqAnswers : req' = [req EXCEPT ![s] = CallGroq(req[s], a[1], a[2], "assistantInsert")]
    /\ UNCHANGED <<store, nextId, now, started>>

KickoffAssistantInsert(s) ==
    /\ req[s].pc = "assistantInsert" /\ req[s].h = "kickoff"
    /\ \E out \in Outcomes :
          LET row == NewJourneyMessage(req[s].handle, req[s].userId, "assistant", Str(req[s].aiResponse))
              insertedMessage == [id |-> row.id, ordinal |-> row.ordinal, created_at |-> row.created_at]
              r == Log(req[s], "assistantInsert", "write", "user_journey_message", req[s].handle, out, out = "ok")
          IN  \/ /\ out = "ok"
                 /\ user_journey_message' = Append(user_journey_message, row)
                 /\ nextId' = nextId + 1
                 /\ now' = now + 1
                 /\ req' = [req EXCEPT ![s] =
                        Respond([r EXCEPT !.msg = <<insertedMessage>>], 201,
                                ReplyBody(r.handle, insertedMessage, r.aiResponse))]
              \/ /\ out # "ok"
                 /\ req' = [req EXCEPT ![s] =
                        IF out = "throw" THEN InternalError(r)
                        ELSE Respond(r, 500, Err("Failed to write message"))]
                 /\ UNCHANGED <<user_journey_message, nextId, now>>
    /\ UNCHANGED <<chat_session, chat_message, user_journey, started>>

-----------------------------------------------------------------------------
(* Start a new chat session with a greeting: new-chat-greeting-function *)

NewChatProfile(s) ==
    /\ req[s].pc = "profile" /\ req[s].h = "newchat"
    /\ \E q \in ProfileLookups : req' = [req EXCEPT ![s] = FetchProfile(req[s], q, "sessionInsert")]
    /\ UNCHANGED <<store, nextId, now, started>>

(* db.from("chat_session").insert({ user_id: userId }).select("id").single() *)
InsertSession(r, out) ==
    LET r1 == Log(r, "sessionInsert", "write", "chat_session", nextId, out, out = "ok")
    IN  IF out = "throw" THEN InternalError(r1)
        ELSE IF out = "err" THEN Respond(r1, 500, Err("Failed to create session"))
        ELSE [r1 EXCEPT !.sessionId = nextId, !.pc = "prompt"]

NewChatSessionInsert(s) ==
    /\ req[s].pc = "sessionInsert" /\ req[s].h = "newchat"
    /\ \E out \in Outcomes :
          /\ req' = [req EXCEPT ![s] = InsertSession(req[s], out)]
          /\ IF out = "ok"
             THEN /\ chat_session' = chat_session \cup {[id |-> nextId, user_id |-> req[s].userId, created_at |-> now]}
                  /\ nextId' = nextId + 1
                  /\ now' = now + 1
             ELSE UNCHANGED <<chat_session, nextId, now>>
    /\ UNCHANGED <<chat_message, user_journey, user_journey_message, started>>

(* NewChatPrompt going on to the cleanup of the session when the prompt is missing *)
MutNewChatPrompt(s) ==
    /\ req[s].pc = "prompt" /\ req[s].h = "newchat"
    /\ \E q \in PromptLookups(PromptRowsFor(SYSTEM_PROMPT_KEY, <<"p">>)) :
          LET promptData == SelectPrompt(q.table, SYSTEM_PROMPT_KEY, q.out)
              r == Log([req[s] EXCEPT !.prompts = q.table],
                       "prompt", "read", "prompts", NoHandle, q.out, q.out # "throw" /\ ~NoContent(promptData))
          IN  req' = [req EXCEPT ![s] =
                  IF q.out = "throw" THEN InternalError(r)
                  ELSE IF NoContent(promptData) THEN [r EXCEPT !.pc = "cleanup"]
                  ELSE [r EXCEPT !.systemPrompt = promptData[1].content,
                                 !.groqMessages = NewChatMessages(promptData[1].content, r.preferredName),
                                 !.pc = "groq"]]
    /\ UNCHANGED <<store, nextId, now, started>>

NewChatPrompt(s) ==
    /\ req[s].pc = "prompt" /\ req[s].h = "newchat"
    /\ \E q \in PromptLookups(PromptRowsFor(SYSTEM_PROMPT_KEY, <<"p">>)) :
          LET promptData == SelectPrompt(q.table, SYSTEM_PROMPT_KEY, q.out)
              r == Log([req[s] EXCEPT !.prompts = q.table],
                       "prompt", "read", "prompts", NoHandle, q.out, q.out # "throw" /\ ~NoContent(promptData))
          IN  req' = [req EXCEPT ![s] =
                  IF q.out = "throw" THEN InternalError(r)
                  ELSE IF NoContent(promptData) THEN Respond(r, 500, Err("System prompt not found"))
                  ELSE [r EXCEPT !.systemPrompt = promptData[1].content,
                                 !.groqMessages = NewChatMessages(promptData[1].content, r.preferredName),
                                 !.pc = "groq"]]
    /\ UNCHANGED <<store, nextId, now, started>>

NewChatGroq(s) ==
    /\ req[s].pc = "groq" /\ req[s].h = "newchat"
    /\ \E a \in GroqAnswers :
          LET r == CallGroq(req[s], a[1], a[2], "msgInsert")
          IN  req' = [req EXCEPT ![s] = [r EXCEPT !.messageText = r.aiResponse]]
    /\ UNCHANGED <<store, nextId, now, started>>

(* db.from("chat_message").insert({ session_id, role: "assistant", content: { text } }):
   on an error the handler goes on to the cleanup, otherwise it answers 201 *)
InsertGreeting(r, out) ==
    LET r1 == Log(r, "assistantInsert", "write", "chat_message", r.sessionId, out, out = "ok")
    IN  IF out = "throw" THEN InternalError(r1)
        ELSE IF out = "err" THEN [r1 EXCEPT !.pc = "cleanup"]
        ELSE Respond(r1, 201, [session_id |-> r.sessionId, assistant_text |-> r.messageText,
                               assistant_message_id |-> NoHandle, name_used |-> r.preferredName])

NewChatMsgInsert(s) ==
    /\ req[s].pc = "msgInsert" /\ req[s].h = "newchat"
    /\ \E out \in Outcomes :
          /\ req' = [req EXCEPT ![s] = InsertGreeting(req[s], out)]
          /\ IF out = "ok"
             THEN /\ chat_message' = Append(chat_message,
                          NewChatMessage(req[s].sessionId, "null", "assistant", Obj(req[s].messageText)))
                  /\ nextId' = nextId + 1
                  /\ now' = now + 1
             ELSE UNCHANGED <<chat_message, nextId, now>>
    /\ UNCHANGED <<chat_session, user_journey, user_journey_message, started>>

(* CleanupTarget with the filter negated: every session but the created one *)
MutCleanupTargetOthers(r) == {x \in chat_session : x.id # r.sessionId}

(* CleanupTarget with the delete filtered by the owner instead of the id *)
MutCleanupTarget(r) == {x \in chat_session : x.user_id = r.userId}

(* try { await db.from("chat_session").delete().eq("id", sessionId); } catch (_) { }
   and the 500 that follows: the rows the delete removes *)
CleanupTarget(r) == {x \in chat_session : x.id = r.sessionId}

(* Cleanup reporting the failure of the delete in place of the write error *)
MutCleanup(r, out) ==
    LET r1 == Log(r, "cleanup", "delete", "chat_session", r.sessionId, out, out = "ok")
    IN  IF out = "throw" THEN InternalError(r1)
        ELSE IF out = "err" THEN Respond(r1, 500, Err("Failed to delete session"))
        ELSE Respond(r1, 500, Err("Failed to write message"))

Cleanup(r, out) ==
    Respond(Log(r, "cleanup", "delete", "chat_session", r.sessionId, out, out = "ok"),
            500, Err("Failed to write message"))

NewChatCleanup(s) ==
    /\ req[s].pc = "cleanup" /\ req[s].h = "newchat"
    /\ \E out \in Outcomes :
          /\ req' = [req EXCEPT ![s] = Cleanup(req[s], out)]
          /\ chat_session' = IF out = "ok" THEN chat_session \ CleanupTarget(req[s]) ELSE chat_session
    /\ UNCHANGED <<chat_message, user_journey, user_journey_message, nextId, now, started>>

-----------------------------------------------------------------------------
(* The earlier new-chat greeting handler (src/functions) *)

LegacyProfile(s) ==
    /\ req[s].pc = "profile" /\ req[s].h = "legacy"
    /\ \E q \in ProfileLookups : req' = [req EXCEPT ![s] = FetchProfile(req[s], q, "sessionInsert")]
    /\ UNCHANGED <<store, nextId, now, started>>

LegacySessionInsert(s) ==
    /\ req[s].pc = "sessionInsert" /\ req[s].h = "legacy"
    /\ \E out \in Outcomes :
          /\ req' = [req EXCEPT ![s] = [InsertSession(req[s], out) EXCEPT !.messageText = FallbackText]]
          /\ IF out = "ok"
             THEN /\ chat_session' = chat_session \cup {[id |-> nextId, user_id |-> req[s].userId, created_at |-> now]}
                  /\ nextId' = nextId + 1
                  /\ now' = now + 1
             ELSE UNCHANGED <<chat_session, nextId, now>>
    /\ UNCHANGED <<chat_message, user_journey, user_journey_message, started>>

(* The lookup in system_prompts inside the try block: without a content, or
   when it throws, the fallback text stays *)
LegacyPrompt(s) ==
    /\ req[s].pc = "prompt" /\ req[s].h = "legacy"
    /\ \E q \in PromptLookups(PromptRowsFor(<<"greeting_new">>, <<"g">>)) :
          LET promptData == SelectPrompt(q.table, <<"greeting_new">>, q.out)
              r == Log([req[s] EXCEPT !.prompts = q.table],
                       "prompt", "read", "system_prompts", NoHandle, q.out, q.out # "throw" /\ ~NoContent(promptData))
          IN  req' = [req EXCEPT ![s] =
                  IF q.out = "throw" \/ NoContent(promptData) THEN [r EXCEPT !.pc = "msgInsert"]
                  ELSE [r EXCEPT !.systemPrompt = promptData[1].content,
                                 !.groqMessages = LegacyMessages(promptData[1].content, r.preferredName),
                                 !.pc = "groq"]]
    /\ UNCHANGED <<store, nextId, now, started>>

(* LegacyGroq without the test of the answer's text: an empty text replaces
   the fallback *)
MutLegacyGroq(s) ==
    /\ req[s].pc = "groq" /\ req[s].h = "legacy"
    /\ \E a \in GroqAnswers :
          LET ai == ExtractText(a[2])
              r == Log([req[s] EXCEPT !.groqOk = (a[1] = "ok"), !.groqContent = a[2]],
                       "complete", "llm", "groq", NoHandle, a[1], a[1] = "ok" /\ ai # <<>>)
          IN  req' = [req EXCEPT ![s] =
                  IF a[1] = "ok"
                  THEN [r EXCEPT !.aiResponse = ai, !.messageText = ai, !.pc = "msgInsert"]
                  ELSE [r EXCEPT !.pc = "msgInsert"]]
    /\ UNCHANGED <<store, nextId, now, started>>

(* The completion call inside the try block: messageText changes only on a
   successful answer with a non-empty text *)
LegacyGroq(s) ==
    /\ req[s].pc = "groq" /\ req[s].h = "legacy"
    /\ \E a \in GroqAnswers :
          LET ai == ExtractText(a[2])
              r == Log([req[s] EXCEPT !.groqOk = (a[1] = "ok"), !.groqContent = a[2]],
                       "complete", "llm", "groq", NoHandle, a[1], a[1] = "ok" /\ ai # <<>>)
          IN  req' = [req EXCEPT ![s] =
                  IF a[1] = "ok" /\ ai # <<>>
                  THEN [r EXCEPT !.aiResponse = ai, !.messageText = ai, !.pc = "msgInsert"]
                  ELSE [r EXCEPT !.pc = "msgInsert"]]
    /\ UNCHANGED <<store, nextId, now, started>>

LegacyMsgInsert(s) ==
    /\ req[s].pc = "msgInsert" /\ req[s].h = "legacy"
    /\ \E out \in Outcomes :
          /\ req' = [req EXCEPT ![s] = InsertGreeting(req[s], out)]
          /\ IF out = "ok"
             THEN /\ chat_message' = Append(chat_message,
                          NewChatMessage(req[s].sessionId, "null", "assistant", Obj(req[s].messageText)))
                  /\ nextId' = nextId + 1
                  /\ now' = now + 1
             ELSE UNCHANGED <<chat_message, nextId, now>>
    /\ UNCHANGED <<chat_session, user_journey, user_journey_message, started>>

LegacyCleanup(s) ==
    /\ req[s].pc = "cleanup" /\ req[s].h = "legacy"
    /\ \E out \in Outcomes :
          /\ req' = [req EXCEPT ![s] = Cleanup(req[s], out)]
          /\ chat_session' = IF out = "ok" THEN chat_session \ CleanupTarget(req[s]) ELSE chat_session
    /\ UNCHANGED <<chat_message, user_journey, user_journey_message, nextId, now, started>>

-----------------------------------------------------------------------------
(* The journeys catalog, managed outside the handlers *)

(* The states the catalog can be in: empty, one active journey, an active and
   an inactive one, two active ones *)
Catalogs ==
    {{},
     {[key |-> <<"k1">>, title |-> "T1", order |-> 1, is_active |-> TRUE]},
     {[key |-> <<"k1">>, title |-> "T1", order |-> 1, is_active |-> TRUE],
      [key |-> <<"k2">>, title |-> "T2", order |-> 2, is_active |-> FALSE]},
     {[key |-> <<"k1">>, title |-> "T1", order |-> 2, is_active |-> TRUE],
      [key |-> <<"k2">>, title |-> "T2", order |-> 1, is_active |-> TRUE]}}

CatalogLookups ==
    {[out |-> "ok", table |-> t] : t \in Catalogs} \cup {[out |-> o, table |-> {}] : o \in {"err", "throw"}}

(* .order("order", { ascending: true }) over rows whose order values differ *)
RECURSIVE OrderByOrder(_)
OrderByOrder(rows) ==
    IF rows = {} THEN <<>>
    ELSE LET first == CHOOSE x \in rows : \A y \in rows : x.order <= y.order
         IN  <<first>> \o OrderByOrder(rows \ {first})

-----------------------------------------------------------------------------
(* List the journeys of the catalog *)

(* .from("journeys").select(...).eq("is_active", true).order("order") and the response *)
ListJourneys(s) ==
    /\ req[s].pc = "catalog" /\ req[s].h = "list"
    /\ \E q \in CatalogLookups :
          LET journeys == OrderByOrder({x \in q.table : x.is_active})
              r == Log(req[s], "catalog", "read", "journeys", NoHandle, q.out, q.out = "ok")
          IN  req' = [req EXCEPT ![s] =
                  IF q.out = "throw" THEN InternalError(r)
                  ELSE IF q.out = "err" THEN Respond(r, 500, Err("Database query failed"))
                  ELSE Respond(r, 200, [journeys |-> journeys, count |-> Len(journeys)])]
    /\ UNCHANGED <<store, nextId, now, started>>

-----------------------------------------------------------------------------
(* Today's latest chat session *)

(* Date.UTC(year, month, date) and Date.UTC(year, month, date + 1) *)
TodayStart(t) == (t \div TicksPerDay) * TicksPerDay

TodayEnd(t) == TodayStart(t) + TicksPerDay

(* .order("created_at", { ascending: false }).limit(1).maybeSingle(): a row
   with the greatest created_at, any of them when several have it *)
Latest(rows) ==
    IF rows = {} THEN {<<>>}
    ELSE {<<x>> : x \in {y \in rows : \A z \in rows : z.created_at <= y.created_at}}

(* TodaysSessions without the lower end of the day window *)
MutTodaysSessions(userId, t) ==
    {x \in chat_session : x.user_id = userId /\ x.created_at < TodayEnd(t)}

(* The sessions of the user created in the day window *)
TodaysSessions(userId, t) ==
    {x \in chat_session : x.user_id = userId /\ x.created_at >= TodayStart(t) /\ x.created_at < TodayEnd(t)}

TodaySession(s) ==
    /\ req[s].pc = "session" /\ req[s].h = "today"
    /\ \E out \in Outcomes :
       \E chatSession \in (IF out = "ok" THEN Latest(TodaysSessions(req[s].userId, now)) ELSE {<<>>}) :
          LET r == Log(req[s], "session", "read", "chat_session", NoHandle, out, out = "ok")
          IN  req' = [req EXCEPT ![s] =
                  IF out = "throw" THEN InternalError(r)
                  ELSE IF out = "err" THEN Respond(r, 500, Err("Database query failed"))
                  ELSE IF chatSession = <<>>
                  THEN Respond(r, 404, [chat_session_id |-> NoHandle,
                                        message |-> "No chat session found for today"])
                  ELSE [r EXCEPT !.found = chatSession, !.sessionId = chatSession[1].id, !.pc = "latest"]]
    /\ UNCHANGED <<store, nextId, now, started>>

(* TodayLatestMessage removing the session it found when it has no message *)
MutTodayLatestMessage(s) ==
    /\ req[s].pc = "latest" /\ req[s].h = "today"
    /\ \E out \in Outcomes :
       \E latestMessage \in (IF out = "ok" THEN Latest(ChatRows(req[s].sessionId)) ELSE {<<>>}) :
          LET r == Log(req[s], "latest", "read", "chat_message", req[s].sessionId, out, out = "ok")
          IN  /\ req' = [req EXCEPT ![s] =
                    IF out = "throw" THEN InternalError(r)
                    ELSE Respond([r EXCEPT !.msg = latestMessage], 200,
                                 [chat_session_id |-> r.found[1].id, created_at |-> r.found[1].created_at,
                                  latest_message |-> <<>>])]
              /\ chat_session' = IF latestMessage = <<>>
                                 THEN {x \in chat_session : x.id # req[s].sessionId}
                                 ELSE chat_session
    /\ UNCHANGED <<chat_message, user_journey, user_journey_message, nextId, now, started>>

(* The latest message of the session, its error ignored, and the response *)
TodayLatestMessage(s) ==
    /\ req[s].pc = "latest" /\ req[s].h = "today"
    /\ \E out \in Outcomes :
       \E latestMessage \in (IF out = "ok" THEN Latest(ChatRows(req[s].sessionId)) ELSE {<<>>}) :
          LET r == Log(req[s], "latest", "read", "chat_message", req[s].sessionId, out, out = "ok")
          IN  req' = [req EXCEPT ![s] =
                  IF out = "throw" THEN InternalError(r)
                  ELSE Respond([r EXCEPT !.msg = latestMessage], 200,
                               [chat_session_id |-> r.found[1].id, created_at |-> r.found[1].created_at,
                                latest_message |-> IF latestMessage = <<>> THEN <<>>
                                                   ELSE <<[id |-> latestMessage[1].id,
                                                           role |-> latestMessage[1].role,
                                                           content |-> latestMessage[1].content,
                                                           created_at |-> latestMessage[1].created_at]>>])]
    /\ UNCHANGED <<store, nextId, now, started>>

-----------------------------------------------------------------------------
(* Resolve or create the user's journey for a key *)

(* .from("user_journey").eq("user_id", ...).eq("journey_key", ...).eq("is_active", true) *)
ActiveJourneys(userId, key) ==
    {x \in user_journey : x.user_id = userId /\ x.journey_key = key /\ x.is_active}

(* The existence lookup; without a row from .single() the handler goes on to create *)
ResolveLookup(s) ==
    /\ req[s].pc = "lookup" /\ req[s].h = "resolve"
    /\ \E out \in Outcomes :
          LET existingJourney == IF out = "ok" THEN Single(ActiveJourneys(req[s].userId, req[s].key)) ELSE <<>>
              r == Log(req[s], "lookup", "read", "user_journey", NoHandle, out, existingJourney # <<>>)
          IN  req' = [req EXCEPT ![s] =
                  IF out = "throw" THEN InternalError(r)
                  ELSE IF existingJourney # <<>>
                  THEN [r EXCEPT !.found = existingJourney, !.handle = existingJourney[1].id, !.pc = "title"]
                  ELSE [r EXCEPT !.pc = "create"]]
    /\ UNCHANGED <<store, nextId, now, started>>

(* ResolveCreate inserting the row without is_active: true *)
MutResolveCreate(s) ==
    /\ req[s].pc = "create" /\ req[s].h = "resolve"
    /\ \E out \in Outcomes :
          LET r == Log(req[s], "journeyInsert", "write", "user_journey",
                       IF out = "ok" THEN nextId ELSE NoHandle, out, out = "ok")
          IN  /\ req' = [req EXCEPT ![s] =
                     IF out = "throw" THEN InternalError(r)
                     ELSE IF out = "err" THEN Respond(r, 500, Err("Failed to create journey"))
                     ELSE [r EXCEPT !.handle = nextId, !.pc = "title"]]
              /\ IF out = "ok"
                 THEN /\ user_journey' = user_journey \cup
                            {[id |-> nextId, user_id |-> req[s].userId, journey_key |-> req[s].key,
                              is_active |-> FALSE]}
                      /\ nextId' = nextId + 1
                 ELSE UNCHANGED <<user_journey, nextId>>
    /\ UNCHANGED <<chat_session, chat_message, user_journey_message, now, started>>

(* .insert({ user_id, journey_key, is_active: true }).select("id").single() *)
ResolveCreate(s) ==
    /\ req[s].pc = "create" /\ req[s].h = "resolve"
    /\ \E out \in Outcomes :
          LET r == Log(req[s], "journeyInsert", "write", "user_journey",
                       IF out = "ok" THEN nextId ELSE NoHandle, out, out = "ok")
          IN  /\ req' = [req EXCEPT ![s] =
                     IF out = "throw" THEN InternalError(r)
                     ELSE IF out = "err" THEN Respond(r, 500, Err("Failed to create journey"))
                     ELSE [r EXCEPT !.handle = nextId, !.pc = "title"]]
              /\ IF out = "ok"
                 THEN /\ user_journey' = user_journey \cup
                            {[id |-> nextId, user_id |-> req[s].userId, journey_key |-> req[s].key,
                              is_active |-> TRUE]}
                      /\ nextId' = nextId + 1
                 ELSE UNCHANGED <<user_journey, nextId>>
    /\ UNCHANGED <<chat_session, chat_message, user_journey_message, now, started>>

(* The title lookup in the catalog and the response *)
ResolveTitle(s) ==
    /\ req[s].pc = "title" /\ req[s].h = "resolve"
    /\ \E q \in CatalogLookups :
          LET journeyData == IF q.out = "ok"
                             THEN Single({x \in q.table : x.key = req[s].key /\ x.is_active}) ELSE <<>>
              r == Log(req[s], "title", "read", "journeys", NoHandle, q.out, journeyData # <<>>)
          IN  req' = [req EXCEPT ![s] =
                  IF q.out = "throw" THEN InternalError(r)
                  ELSE IF journeyData = <<>> THEN Respond(r, 404, Err("Journey not found"))
                  ELSE Respond(r, 200, [user_journey_id |-> r.handle, journey_key |-> r.key,
                                        journey_title |-> journeyData[1].title])]
    /\ UNCHANGED <<store, nextId, now, started>>

-----------------------------------------------------------------------------

Next ==
    \E s \in Slots :
        \/ Receive(s)
        \/ Authenticate(s)
        \/ ChatVerify(s)
        \/ ChatUserInsert(s)
        \/ ChatPrompt(s)
        \/ ChatHistory(s)
        \/ ChatGroq(s)
        \/ ChatAssistantInsert(s)
        \/ JourneyVerify(s)
        \/ JourneyUserInsert(s)
        \/ JourneyMeta(s)
        \/ JourneyPrompt(s)
        \/ JourneyHistory(s)
        \/ JourneyGroq(s)
        \/ JourneyAssistantInsert(s)
        \/ ResumeVerify(s)
        \/ ResumeProfile(s)
        \/ ResumePrompt(s)
        \/ ResumeHistory(s)
        \/ ResumeGroq(s)
        \/ ResumeAssistantInsert(s)
        \/ KickoffVerify(s)
        \/ KickoffProfile(s)
        \/ KickoffMeta(s)
        \/ KickoffPrompts(s)
        \/ KickoffGroq(s)
        \/ KickoffAssistantInsert(s)
        \/ NewChatProfile(s)
        \/ NewChatSessionInsert(s)
        \/ NewChatPrompt(s)
        \/ NewChatGroq(s)
        \/ NewChatMsgInsert(s)
        \/ NewChatCleanup(s)
        \/ LegacyProfile(s)
        \/ LegacySessionInsert(s)
        \/ LegacyPrompt(s)
        \/ LegacyGroq(s)
        \/ LegacyMsgInsert(s)
        \/ LegacyCleanup(s)
        \/ ListJourneys(s)
        \/ TodaySession(s)
        \/ TodayLatestMessage(s)
        \/ ResolveLookup(s)
        \/ ResolveCreate(s)
        \/ ResolveTitle(s)

Spec == Init /\ [][Next]_vars

-----------------------------------------------------------------------------
(* Two workers serving requests of one user at the same time.  The requests
   are those of the handlers that write conversations and messages and of the
   today's-session lookup, sent with the handler's method and a bearer token;
   the steps of the two requests interleave at their awaits. *)

ConcurrentHandlers == {"chat", "journey", "resolve", "newchat", "today"}

ReceiveConcurrent(s) ==
    \E h \in ConcurrentHandlers : Arrive(s, {h}, {Allowed(h)}, {"Bearer"}, MaxConcurrentRequests)

InitConcurrent ==
    /\ chat_session = {[id |-> 1, user_id |-> "A", created_at |-> 0],
                       [id |-> 2, user_id |-> "B", created_at |-> 0]}
    /\ chat_message = SeedChat(0, FALSE)
    /\ user_journey = {[id |-> 1, user_id |-> "A", journey_key |-> <<"k1">>, is_active |-> TRUE],
                       [id |-> 2, user_id |-> "B", journey_key |-> <<"k1">>, is_active |-> TRUE]}
    /\ user_journey_message = SeedJourney(0, FALSE)
    /\ nextId = 3
    /\ now = 1
    /\ started = 0
    /\ req = [s \in ConcurrentWorkers |-> Idle]

NextConcurrent ==
    \E s \in Slots :
        \/ ReceiveConcurrent(s)
        \/ Authenticate(s)
        \/ ChatVerify(s)
        \/ ChatUserInsert(s)
        \/ ChatPrompt(s)
        \/ ChatHistory(s)
        \/ ChatGroq(s)
        \/ ChatAssistantInsert(s)
        \/ JourneyVerify(s)
        \/ JourneyUserInsert(s)
        \/ JourneyMeta(s)
        \/ JourneyPrompt(s)
        \/ JourneyHistory(s)
        \/ JourneyGroq(s)
        \/ JourneyAssistantInsert(s)
        \/ NewChatProfile(s)
        \/ NewChatSessionInsert(s)
        \/ NewChatPrompt(s)
        \/ NewChatGroq(s)
        \/ NewChatMsgInsert(s)
        \/ NewChatCleanup(s)
        \/ TodaySession(s)
        \/ TodayLatestMessage(s)
        \/ ResolveLookup(s)
        \/ ResolveCreate(s)
        \/ ResolveTitle(s)

Concurrent == InitConcurrent /\ [][NextConcurrent]_vars

-----------------------------------------------------------------------------
(* The program under the assumption that every awaited call returns or
   throws: one worker serving MaxFairRequests requests *)
MaxFairRequests == 1

ReceiveFair(s) == Arrive(s, Handlers, Methods, AuthHeaders, MaxFairRequests)

NextFair ==
    \E s \in Slots :
        \/ ReceiveFair(s)
        \/ Authenticate(s)
        \/ ChatVerify(s)
        \/ ChatUserInsert(s)
        \/ ChatPrompt(s)
        \/ ChatHistory(s)
        \/ ChatGroq(s)
        \/ ChatAssistantInsert(s)
        \/ JourneyVerify(s)
        \/ JourneyUserInsert(s)
        \/ JourneyMeta(s)
        \/ JourneyPrompt(s)
        \/ JourneyHistory(s)
        \/ JourneyGroq(s)
        \/ JourneyAssistantInsert(s)
        \/ ResumeVerify(s)
        \/ ResumeProfile(s)
        \/ ResumePrompt(s)
        \/ ResumeHistory(s)
        \/ ResumeGroq(s)
        \/ ResumeAssistantInsert(s)
        \/ KickoffVerify(s)
        \/ KickoffProfile(s)
        \/ KickoffMeta(s)
        \/ KickoffPrompts(s)
        \/ KickoffGroq(s)
        \/ KickoffAssistantInsert(s)
        \/ NewChatProfile(s)
        \/ NewChatSessionInsert(s)
        \/ NewChatPrompt(s)
        \/ NewChatGroq(s)
        \/ NewChatMsgInsert(s)
        \/ NewChatCleanup(s)
        \/ LegacyProfile(s)
        \/ LegacySessionInsert(s)
        \/ LegacyPrompt(s)
        \/ LegacyGroq(s)
        \/ LegacyMsgInsert(s)
        \/ LegacyCleanup(s)
        \/ ListJourneys(s)
        \/ TodaySession(s)
        \/ TodayLatestMessage(s)
        \/ ResolveLookup(s)
        \/ ResolveCreate(s)
        \/ ResolveTitle(s)

(* A step of a request in flight: the call it awaits has returned or thrown
   and the runtime resumes the handler *)
InFlight == \E s \in Workers : req[s].pc \notin {"idle", "done"}

Proceed == InFlight /\ NextFair

Fair == Init /\ [][NextFair]_vars /\ WF_vars(Proceed)

-----------------------------------------------------------------------------
(* Vocabulary of the properties *)

Made(r, what) == \E i \in 1..Len(r.ops) : r.ops[i].what = what

Passed(r, what) == \E i \in 1..Len(r.ops) : r.ops[i].what = what /\ r.ops[i].ok

IsReply(r) == r.h \in {"chat", "journey"}

(* The stored rows of the conversation a request addresses *)
ConvRows(r) == IF r.h \in {"chat", "resume"} THEN ChatRows(r.handle) ELSE JourneyRows(r.handle)

Ids(seq) == {seq[i].id : i \in 1..Len(seq)}

(* The request has just loaded the history of its conversation *)
HistoryJustLoaded(r) == r.h \in {"chat", "journey", "resume"} /\ r.pc = "groq"

-----------------------------------------------------------------------------
(* C1: in the reply flows and the resume flow, the history placed in the
   context is exactly min(40, n) of the conversation's n messages, namely the
   most recent ones by creation time, oldest first; for n > 40 the newest
   message is included and the oldest n - 40 are left out. *)
C1_MostRecentWindow ==
    \A s \in Slots :
        HistoryJustLoaded(req[s]) =>
            LET rows == ConvRows(req[s])
                d == req[s].dbMessages
            IN  /\ Len(d) = Min(MESSAGE_HISTORY_LIMIT, Cardinality(rows))
                /\ Ids(d) \subseteq {x.id : x \in rows}
                /\ \A x \in rows : x.id \notin Ids(d) =>
                       \A i \in 1..Len(d) : x.created_at <= d[i].created_at
                /\ \A i, j \in 1..Len(d) : i < j => d[i].created_at <= d[j].created_at

(* The state the code reaches instead: a conversation longer than the window
   whose newest message is missing from the loaded history *)
C1_NewestLeftOut ==
    \E s \in Slots :
        /\ HistoryJustLoaded(req[s])
        /\ Cardinality(ConvRows(req[s])) > MESSAGE_HISTORY_LIMIT
        /\ \E x \in ConvRows(req[s]) :
              /\ \A y \in ConvRows(req[s]) : y.created_at <= x.created_at
              /\ x.id \notin Ids(req[s].dbMessages)

(* C2: in the reply flow the message list sent to the completion API ends
   with the user turn this request has just committed, and nothing follows
   the history in it. *)
C2_EndsWithNewUserTurn ==
    \A s \in Slots :
        (IsReply(req[s]) /\ req[s].pc = "groq") =>
            LET g == req[s].groqMessages
                d == req[s].dbMessages
            IN  /\ Len(g) = Len(d) + 1
                /\ d # <<>>
                /\ Last(d).id = req[s].userMsg[1].id
                /\ Last(g) = [role |-> "user", content |-> Str(req[s].content)]

(* C3: in every flow that calls the completion API the list sent has the
   system prompt, with role system, as its first element, whatever the length
   of the history. *)
C3_SystemPromptFirst ==
    \A s \in Slots :
        Made(req[s], "complete") =>
            /\ req[s].groqMessages # <<>>
            /\ req[s].systemPrompt # <<>>
            /\ req[s].groqMessages[1].role = "system"
            /\ req[s].groqMessages[1].content.text = req[s].systemPrompt
            /\ \A i \in 2..Len(req[s].groqMessages) : req[s].groqMessages[i].role # "system"

(* The resume flow on an empty conversation has called the completion API:
   the list is the system prompt and the greeting turn *)
C3_Witness ==
    \E s \in Slots :
        /\ req[s].h = "resume"
        /\ Made(req[s], "complete")
        /\ req[s].dbMessages = <<>>
        /\ Len(req[s].groqMessages) = 2

-----------------------------------------------------------------------------
(* More vocabulary *)

Table(r) == IF r.h \in {"chat", "resume", "newchat", "legacy"} THEN chat_message ELSE user_journey_message

PreLen(r) == IF r.h \in {"chat", "resume", "newchat", "legacy"} THEN r.pre.chat ELSE r.pre.journey

RowConv(r, x) == IF r.h \in {"chat", "resume", "newchat", "legacy"} THEN x.session_id ELSE x.user_journey_id

OpIndex(r, what) == CHOOSE i \in 1..Len(r.ops) : r.ops[i].what = what

(* The rows written to the message tables since the request arrived *)
NewChatRows(r) == {chat_message[i] : i \in (r.pre.chat + 1)..Len(chat_message)}

NewJourneyRows(r) == {user_journey_message[i] : i \in (r.pre.journey + 1)..Len(user_journey_message)}

StoreAsOnArrival(r) ==
    /\ Len(chat_message) = r.pre.chat
    /\ Len(user_journey_message) = r.pre.journey
    /\ {x.id : x \in chat_session} = r.pre.sessions
    /\ {x.id : x \in user_journey} = r.pre.journeys

-----------------------------------------------------------------------------
(* C4: a successful reply request on a conversation whose highest ordinal is
   k commits exactly two messages, the user turn with ordinal k+1 before the
   completion call and the assistant turn with ordinal k+2 after it, and the
   response carries the id, ordinal and created_at of the stored assistant
   row. *)
C4_TwoTurnsCommitted ==
    \A s \in Slots :
        (IsReply(req[s]) /\ req[s].pc = "done" /\ req[s].status = 200) =>
            LET r == req[s]
                t == Table(r)
                p == PreLen(r)
                prior == {t[i].ordinal : i \in {j \in 1..p : RowConv(r, t[j]) = r.handle}}
                k == IF prior = {} THEN 0 ELSE SetMax(prior)
            IN  /\ Len(t) = p + 2
                /\ t[p + 1].role = "user" /\ RowConv(r, t[p + 1]) = r.handle
                /\ t[p + 1].content = Str(r.content) /\ t[p + 1].ordinal = k + 1
                /\ t[p + 2].role = "assistant" /\ RowConv(r, t[p + 2]) = r.handle
                /\ t[p + 2].content = Str(r.aiResponse) /\ t[p + 2].ordinal = k + 2
                /\ OpIndex(r, "userInsert") < OpIndex(r, "complete")
                /\ OpIndex(r, "complete") < OpIndex(r, "assistantInsert")
                /\ r.body.message_id = t[p + 2].id
                /\ r.body.ordinal = t[p + 2].ordinal
                /\ r.body.created_at = t[p + 2].created_at
                /\ r.body.content = r.aiResponse

(* A reply on the conversation of 40 messages has succeeded: ordinals 41 and 42 *)
C4_Witness ==
    \E s \in Slots :
        /\ req[s].h = "chat" /\ req[s].pc = "done" /\ req[s].status = 200
        /\ req[s].userMsg[1].ordinal = MESSAGE_HISTORY_LIMIT + 1
        /\ req[s].body.ordinal = MESSAGE_HISTORY_LIMIT + 2

(* C5, first part: the user turn a reply request has inserted stays stored,
   unchanged, whatever happens later in the request or in later requests, and
   the request issues no delete or update on it. *)
C5_StaysPersisted ==
    \A s \in Slots :
        /\ (IsReply(req[s]) /\ req[s].userMsg # <<>>) =>
              /\ \E x \in ConvRows(req[s]) :
                    /\ x.id = req[s].userMsg[1].id /\ x.role = "user"
                    /\ x.content = Str(req[s].content)
                    /\ x.ordinal = req[s].userMsg[1].ordinal
              /\ \A i \in 1..Len(req[s].ops) : req[s].ops[i].kind \notin {"delete", "update"}
        /\ \A k \in req[s].kept :
              \E x \in (IF k.h = "chat" THEN ChatRows(k.handle) ELSE JourneyRows(k.handle)) : x.id = k.id

(* C5: once the user-turn insert has succeeded, every later failure leaves
   that message persisted: no delete or update is issued on it, and a later
   history load of the conversation returns it. *)
C5_UserTurnSurvivesFailure ==
    /\ C5_StaysPersisted
    /\ \A s \in Slots : \A k \in req[s].kept :
          (/\ HistoryJustLoaded(req[s])
           /\ req[s].handle = k.handle
           /\ (req[s].h = "journey") = (k.h = "journey")) => k.id \in Ids(req[s].dbMessages)

(* An answer without text: no content, or nothing but blanks *)
Blank(c) == c = <<>> \/ \A i \in 1..Len(c[1]) : c[1][i] = " "

(* C6: in the reply, resume, kickoff and new-chat handlers, a completion call
   that succeeds at transport level but whose text is absent or empty after
   trimming ends the request with a 500 and no assistant message insert. *)
C6_EmptyCompletionRejected ==
    \A s \in Slots :
        (/\ req[s].h \in {"chat", "journey", "resume", "kickoff", "newchat"}
         /\ Made(req[s], "complete") /\ req[s].groqOk /\ Blank(req[s].groqContent)) =>
            /\ req[s].pc = "done"
            /\ req[s].status = 500
            /\ ~Made(req[s], "assistantInsert")
            /\ \A x \in NewChatRows(req[s]) \cup NewJourneyRows(req[s]) : x.role # "assistant"

(* The new-chat handler got an answer of blanks and has responded *)
C6_Witness ==
    \E s \in Slots :
        /\ req[s].h = "newchat" /\ req[s].groqOk /\ req[s].groqContent = <<<<" ">>>>
        /\ req[s].pc = "done" /\ req[s].status = 500

(* C7: in the new-chat flow, when the session insert succeeded and the
   assistant-turn insert returns an error, the request issues a delete of
   exactly the session it created (which, when the delete succeeds, is no
   longer in the store) and responds 500; a delete never targets a session
   that existed before the request, and no request removes a conversation
   that existed before it. *)
C7_CleanupOwnSession ==
    \A s \in Slots :
        LET r == req[s]
        IN  /\ (/\ r.h \in {"newchat", "legacy"} /\ r.pc = "done" /\ Passed(r, "sessionInsert")
                /\ \E i \in 1..Len(r.ops) : r.ops[i].what = "assistantInsert" /\ r.ops[i].res = "err") =>
                   /\ r.status = 500
                   /\ Last(r.ops).what = "cleanup" /\ Last(r.ops).kind = "delete"
                   /\ Last(r.ops).table = "chat_session" /\ Last(r.ops).target = r.sessionId
                   /\ Last(r.ops).res = "ok" => r.sessionId \notin {x.id : x \in chat_session}
            /\ \A i \in 1..Len(r.ops) : r.ops[i].kind = "delete" =>
                   /\ r.ops[i].target \notin r.pre.sessions
                   /\ \E j \in 1..(i - 1) :
                         /\ r.ops[j].what = "sessionInsert" /\ r.ops[j].ok
                         /\ r.ops[j].target = r.ops[i].target
            /\ r.pre.sessions \subseteq {x.id : x \in chat_session}
            /\ r.pre.journeys \subseteq {x.id : x \in user_journey}

(* The assistant-turn insert of a new-chat request failed, the delete went
   through and the created session is gone *)
C7_Witness ==
    \E s \in Slots :
        /\ req[s].h = "newchat" /\ req[s].pc = "done" /\ req[s].status = 500
        /\ req[s].sessionId # NoHandle
        /\ Last(req[s].ops).what = "cleanup" /\ Last(req[s].ops).res = "ok"
        /\ req[s].sessionId \notin {x.id : x \in chat_session}

TakesHandle(r) == r.h \in {"chat", "journey", "resume", "kickoff"}

Conversations(r) == IF r.h \in {"chat", "resume"} THEN chat_session ELSE user_journey

(* The handle names a conversation of another user / no conversation *)
Foreign(r) == \E x \in Conversations(r) : x.id = r.handle /\ x.user_id # r.userId

Unknown(r) == \A x \in Conversations(r) : x.id # r.handle

DeniedStatus(h) == IF h = "resume" THEN 400 ELSE 404

DeniedBody(h) ==
    IF h = "chat" THEN Err("Chat session not found or access denied")
    ELSE IF h = "resume" THEN Err("Invalid chat session")
    ELSE Err("Journey not found or access denied")

(* C8: in every handler that takes a conversation handle, a request whose
   handle names a conversation of another user gets the very response an
   unknown handle gets, which carries no data of the conversation, and the
   request makes no message read, no store write and no completion call. *)
C8_ForeignHandleDenied ==
    \A s \in Slots :
        LET r == req[s]
        IN  (TakesHandle(r) /\ Made(r, "verify") /\ (Foreign(r) \/ Unknown(r))) =>
                /\ r.pc = "done"
                /\ Len(r.ops) = 2
                /\ \/ r.ops[2].res = "throw" /\ r.status = 500 /\ r.body = Err("Internal server error")
                   \/ r.ops[2].res # "throw" /\ r.status = DeniedStatus(r.h) /\ r.body = DeniedBody(r.h)
                /\ r.dbMessages = <<>> /\ r.groqMessages = <<>>
                /\ StoreAsOnArrival(r)

(* The owner of session 1 replied in session 2, the lookup returned the row,
   and the request was denied *)
C8_Witness ==
    \E s \in Slots :
        /\ req[s].h = "chat" /\ req[s].userId = "A" /\ req[s].handle = 2
        /\ Foreign(req[s])
        /\ Made(req[s], "verify") /\ req[s].ops[2].res = "ok"
        /\ req[s].status = 404

IsCheckpoint(o) == o.what \in {"auth", "verify", "userInsert", "history", "prompt", "complete", "assistantInsert"}

Checkpoints(r) == LET c == SelectSeq(r.ops, IsCheckpoint) IN [i \in 1..Len(c) |-> c[i].what]

SucceededReply(r) == IsReply(r) /\ r.pc = "done" /\ r.status = 200

(* C9 as stated: every successful reply request passes its checkpoints in the
   order Authenticated, ConversationVerified, UserTurnCommitted,
   HistoryLoaded, PromptSelected, CompletionObtained, AssistantTurnCommitted,
   Responded. *)
C9_HistoryBeforePrompt ==
    \A s \in Slots :
        SucceededReply(req[s]) =>
            Checkpoints(req[s]) =
                <<"auth", "verify", "userInsert", "history", "prompt", "complete", "assistantInsert">>

(* C9, amended: every successful reply request passes its checkpoints in the
   order Authenticated, ConversationVerified, UserTurnCommitted,
   PromptSelected, HistoryLoaded, CompletionObtained, AssistantTurnCommitted,
   Responded, each of them passed. *)
C9_PromptBeforeHistory ==
    \A s \in Slots :
        SucceededReply(req[s]) =>
            /\ Checkpoints(req[s]) =
                   <<"auth", "verify", "userInsert", "prompt", "history", "complete", "assistantInsert">>
            /\ \A i \in 1..Len(req[s].ops) : IsCheckpoint(req[s].ops[i]) => req[s].ops[i].ok

(* A reply in a journey has succeeded *)
C9_Witness ==
    \E s \in Slots : req[s].h = "journey" /\ SucceededReply(req[s]) /\ Len(req[s].ops) = 8

(* C10: in the reply flow, when a step fails (auth, conversation
   verification, user-turn insert, prompt selection, history load, completion,
   assistant-turn insert) the handler responds with an error at once and makes
   no call of any later step. *)
C10_HardCheckpoints ==
    \A s \in Slots :
        IsReply(req[s]) =>
            LET ops == req[s].ops
            IN  /\ \A i \in 1..(Len(ops) - 1) : IsCheckpoint(ops[i]) => ops[i].ok
                /\ (ops # <<>> /\ IsCheckpoint(Last(ops)) /\ ~Last(ops).ok) =>
                       /\ req[s].pc = "done"
                       /\ req[s].status = (IF Last(ops).res = "throw" THEN 500
                                           ELSE IF Last(ops).what = "auth" THEN 401
                                           ELSE IF Last(ops).what = "verify" THEN 404
                                           ELSE 500)
                /\ (req[s].auth # "Bearer" /\ req[s].method = "POST") =>
                       req[s].pc = "done" /\ req[s].status = 401 /\ ops = <<>>

(* The history load of a chat reply failed after the user turn and the prompt:
   a 500 and no completion call *)
C10_Witness ==
    \E s \in Slots :
        /\ req[s].h = "chat" /\ req[s].pc = "done" /\ req[s].status = 500
        /\ Len(req[s].ops) = 5
        /\ Last(req[s].ops).what = "history" /\ Last(req[s].ops).res = "err"
        /\ req[s].userMsg # <<>>

-----------------------------------------------------------------------------
(* The ordinal of a loaded message, read from the stored row with its id *)
OrdinalOf(r, id) == (CHOOSE x \in ConvRows(r) : x.id = id).ordinal

(* C11: the messages a history load returns have strictly increasing ordinals
   and non-decreasing creation times, also when two messages of the
   conversation carry the same creation timestamp. *)
C11_HistoryOrdinalsIncrease ==
    \A s \in Slots :
        HistoryJustLoaded(req[s]) =>
            \A i, j \in 1..Len(req[s].dbMessages) :
                i < j => /\ OrdinalOf(req[s], req[s].dbMessages[i].id) < OrdinalOf(req[s], req[s].dbMessages[j].id)
                         /\ req[s].dbMessages[i].created_at <= req[s].dbMessages[j].created_at

(* C12: every handler that takes a conversation handle (chat reply, journey
   reply, kickoff, resume) answers 404 when the handle is unknown or names a
   conversation of another user. *)
C12_NotOwnedIs404 ==
    \A s \in Slots :
        LET r == req[s]
        IN  (/\ TakesHandle(r) /\ Made(r, "verify") /\ r.ops[2].res # "throw"
             /\ (Foreign(r) \/ Unknown(r))) => r.pc = "done" /\ r.status = 404

(* The calls of a request other than the identity check *)
CallsBeyondAuth(r) == {i \in 1..Len(r.ops) : r.ops[i].kind # "auth"}

(* C13: in every handler, a request of the handler's method (not a preflight)
   whose Authorization header is absent, is not a Bearer header, or carries a
   token the identity service rejects is answered 401 and makes no store
   read, no store write and no completion call. *)
C13_Unauthorized ==
    \A s \in Slots :
        LET r == req[s]
        IN  (/\ r.h \in Handlers /\ r.method = Allowed(r.h)
             /\ \/ r.auth # "Bearer"
                \/ Made(r, "auth") /\ r.ops[1].res = "rejected") =>
                /\ r.pc = "done" /\ r.status = 401 /\ r.body = Err("Unauthorized")
                /\ CallsBeyondAuth(r) = {}
                /\ r.auth # "Bearer" => r.ops = <<>>
                /\ StoreAsOnArrival(r)

(* The resolve-or-create handler has turned down a token the identity service rejected *)
C13_Witness ==
    \E s \in Slots :
        /\ req[s].h = "resolve" /\ req[s].method = "POST" /\ req[s].auth = "Bearer"
        /\ Len(req[s].ops) = 1 /\ req[s].ops[1].res = "rejected"
        /\ req[s].status = 401

(* C14: every handler answers a preflight (OPTIONS) request with an empty 204
   whatever the credentials and the store hold, without an identity check, a
   store access or a completion call. *)
C14_Preflight ==
    \A s \in Slots :
        LET r == req[s]
        IN  (r.h \in Handlers /\ r.method = "OPTIONS") =>
                /\ r.pc = "done" /\ r.status = 204 /\ r.body = NoBody
                /\ r.ops = <<>>
                /\ StoreAsOnArrival(r)

(* A preflight without credentials to the today's-session handler, on a
   store that holds a conversation of 40 messages *)
C14_Witness ==
    \E s \in Slots :
        /\ req[s].h = "today" /\ req[s].method = "OPTIONS" /\ req[s].auth = "none"
        /\ req[s].status = 204
        /\ req[s].pre.chat > 1

(* The active journeys of the caller for the requested key that existed when
   the request arrived, and the journeys the request has inserted *)
ActiveOnArrival(r) == {x \in ActiveJourneys(r.userId, r.key) : x.id \in r.pre.journeys}

InsertedJourneys(r) == {x \in user_journey : x.id \notin r.pre.journeys}

(* C15: resolve-or-create for caller u and key k: when at least one active
   journey of u with key k exists, one or several, the request inserts
   nothing and returns the id of an existing one; when none exists it inserts
   at most once, an active journey of u with key k. *)
C15_ReuseOrCreateOnce ==
    \A s \in Slots :
        LET r == req[s]
        IN  (r.h = "resolve" /\ Made(r, "lookup")) =>
                /\ ActiveOnArrival(r) # {} =>
                       /\ InsertedJourneys(r) = {}
                       /\ ~Made(r, "journeyInsert")
                       /\ r.status = 200 => r.body.user_journey_id \in {x.id : x \in ActiveOnArrival(r)}
                /\ ActiveOnArrival(r) = {} =>
                       /\ Cardinality(InsertedJourneys(r)) <= 1
                       /\ \A x \in InsertedJourneys(r) :
                              x.user_id = r.userId /\ x.journey_key = r.key /\ x.is_active
                       /\ r.status = 200 => r.body.user_journey_id \in {x.id : x \in InsertedJourneys(r)}

(* The active rows the prompts table held for a key when the request read it *)
ActivePrompts(r, key) == {p \in r.prompts : p.key = key /\ p.is_active}

(* The rows inserted since the request arrived hold no assistant message *)
NoAssistantTurn(r) == \A x \in NewChatRows(r) \cup NewJourneyRows(r) : x.role # "assistant"

(* C16: in the kickoff flow, when no active auxiliary prompt (key
   '<journey_key>_user') exists, the request is rejected with an error
   response, makes no completion call and persists no assistant message, even
   when the primary prompt is present. *)
C16_AuxiliaryPromptRequired ==
    \A s \in Slots :
        LET r == req[s]
        IN  (/\ r.h = "kickoff" /\ Made(r, "prompt")
             /\ ActivePrompts(r, UserKey(r.conv[1].journey_key)) = {}) =>
                /\ r.pc = "done" /\ r.status >= 400
                /\ ~Made(r, "complete")
                /\ NoAssistantTurn(r)

(* C17, the part about the shape: the kickoff message list has two elements, a
   system turn carrying the primary prompt and one user turn, and nothing of
   the journey's stored messages. *)
C17_TwoTurnsNoHistory ==
    \A s \in Slots :
        LET r == req[s]
        IN  (r.h = "kickoff" /\ r.groqMessages # <<>>) =>
                /\ Len(r.groqMessages) = 2
                /\ r.groqMessages[1].role = "system" /\ r.groqMessages[2].role = "user"
                /\ \E p \in ActivePrompts(r, r.conv[1].journey_key) :
                       r.groqMessages[1].content = Str(p.content)
                /\ r.dbMessages = <<>>

(* C17: in the kickoff flow the message list sent to the completion API is
   exactly the primary journey prompt as system turn followed by the
   auxiliary seed prompt as the only user turn, whatever the journey already
   holds. *)
C17_PrimaryThenAuxiliary ==
    \A s \in Slots :
        LET r == req[s]
        IN  (r.h = "kickoff" /\ Made(r, "complete")) =>
                \E p \in ActivePrompts(r, r.conv[1].journey_key),
                   u \in ActivePrompts(r, UserKey(r.conv[1].journey_key)) :
                    r.groqMessages = <<[role |-> "system", content |-> Str(p.content)],
                                       [role |-> "user", content |-> Str(u.content)]>>

(* The name the caller's profile gives, when the lookup delivered a profile
   with a name that is neither null nor empty *)
NameOnFile(r) ==
    IF /\ r.ops[OpIndex(r, "profile")].res = "ok"
       /\ r.profile # <<>>
       /\ r.profile[1].preferred_name \notin {<<>>, <<"">>}
    THEN <<r.profile[1].preferred_name[1]>> ELSE <<>>

(* C18: in the resume flow the context is the system prompt, then the loaded
   history, then exactly one synthetic user turn built from the greeting
   template with the caller's preferred name, or with 'there' when the
   profile is missing, its name is null or empty, or the lookup failed; and
   no outcome of the profile lookup ends the request. *)
C18_ResumeContext ==
    \A s \in Slots :
        LET r == req[s]
            g == r.groqMessages
            n == Len(r.dbMessages)
        IN  /\ (r.h = "resume" /\ g # <<>>) =>
                   /\ Len(g) = n + 2
                   /\ g[1] = [role |-> "system", content |-> Str(r.systemPrompt)]
                   /\ \A i \in 1..n :
                          /\ g[i + 1] = [role |-> r.dbMessages[i].role, content |-> r.dbMessages[i].content]
                          /\ g[i + 1].content.kind # "resume_greeting"
                   /\ g[n + 2].role = "user"
                   /\ g[n + 2].content.kind = "resume_greeting"
                   /\ g[n + 2].content.name =
                          (IF NameOnFile(r) = <<>> THEN "there" ELSE NameOnFile(r)[1])
            /\ (r.h = "resume" /\ Made(r, "profile")) =>
                   ~(r.pc = "done" /\ Last(r.ops).what = "profile")

(* A resume request whose profile lookup threw has been answered 200, the
   greeting turn addressed to 'there' after a history of 40 messages *)
C18_Witness ==
    \E s \in Slots :
        /\ req[s].h = "resume" /\ req[s].status = 200
        /\ req[s].ops[OpIndex(req[s], "profile")].res = "throw"
        /\ Len(req[s].groqMessages) = MESSAGE_HISTORY_LIMIT + 2
        /\ Last(req[s].groqMessages).content.name = "there"

(* The key of the primary prompt of a handler *)
PrimaryKey(r) == IF r.h \in {"journey", "kickoff"} THEN r.conv[1].journey_key ELSE SYSTEM_PROMPT_KEY

(* The rows of the prompts table, as the request read it, that are active,
   carry the primary key and have content *)
UsablePrompts(r) == {p \in ActivePrompts(r, PrimaryKey(r)) : p.content # <<>>}

(* C19: in the reply, resume, kickoff and new-chat handlers, when no prompt
   row exists that is active, has the primary key and has content (a
   matching but inactive row included), the request ends with a 500, makes
   no completion call and persists no assistant message. *)
C19_PrimaryPromptRequired ==
    \A s \in Slots :
        LET r == req[s]
        IN  (/\ r.h \in {"chat", "journey", "resume", "kickoff", "newchat"}
             /\ Made(r, "prompt") /\ UsablePrompts(r) = {}) =>
                /\ r.pc = "done" /\ r.status = 500
                /\ Last(r.ops).what = "prompt"
                /\ ~Made(r, "complete")
                /\ NoAssistantTurn(r)

(* A chat reply found only an inactive system prompt and was answered 500 *)
C19_Witness ==
    \E s \in Slots :
        /\ req[s].h = "chat" /\ req[s].status = 500
        /\ req[s].prompts = {[key |-> SYSTEM_PROMPT_KEY, content |-> <<"p">>, is_active |-> FALSE]}
        /\ req[s].body = Err("System prompt not found")

(* The calls a request must not repeat: the completion call and the inserts *)
Attempts == {"complete", "sessionInsert", "userInsert", "assistantInsert", "journeyInsert"}

Count(r, what) == Cardinality({i \in 1..Len(r.ops) : r.ops[i].what = what})

Failed(o) == o.what \in Attempts /\ o.res # "ok"

NoAttemptAfter(r, i) == \A j \in (i + 1)..Len(r.ops) : r.ops[j].what \notin Attempts

(* The request has answered 500, or is about to after the cleanup of its session *)
Answers500(r) == (r.pc = "done" /\ r.status = 500) \/ r.pc = "cleanup"

(* C20 as stated: within one request of any handler the completion API is
   called at most once and each insert is attempted at most once, and a
   non-success completion or a failed write leads to a 500 with no further
   attempt. *)
C20_NoRetryAlways500 ==
    \A s \in Slots :
        LET r == req[s]
        IN  /\ \A w \in Attempts : Count(r, w) <= 1
            /\ \A i \in 1..Len(r.ops) : Failed(r.ops[i]) => NoAttemptAfter(r, i) /\ Answers500(r)

(* C20, amended: at most one completion call and one attempt of each insert
   per request; a failed write leads to a 500 with no further attempt, and so
   does a non-success completion in every handler but the earlier new-chat
   handler, which keeps its fixed fallback text and goes on to insert it,
   without a second completion call. *)
C20_NoRetry ==
    \A s \in Slots :
        LET r == req[s]
        IN  /\ \A w \in Attempts : Count(r, w) <= 1
            /\ \A i \in 1..Len(r.ops) : Failed(r.ops[i]) =>
                   IF r.h = "legacy" /\ r.ops[i].what = "complete"
                   THEN /\ r.messageText = FallbackText
                        /\ \A j \in (i + 1)..Len(r.ops) : r.ops[j].what \in {"assistantInsert", "cleanup"}
                   ELSE NoAttemptAfter(r, i) /\ Answers500(r)

(* The completion call of a new-chat request came back with a non-success
   status: a 500 right after it, the session insert and the call made once *)
C20_Witness ==
    \E s \in Slots :
        /\ req[s].h = "newchat" /\ req[s].pc = "done" /\ req[s].status = 500
        /\ Last(req[s].ops).what = "complete" /\ Last(req[s].ops).res = "notok"
        /\ Count(req[s], "sessionInsert") = 1 /\ Count(req[s], "complete") = 1

-----------------------------------------------------------------------------
(* The assistant-turn insert of a start-new-conversation request returned an error *)
GreetingWriteFailed(r) ==
    /\ r.h \in {"newchat", "legacy"}
    /\ \E i \in 1..Len(r.ops) : r.ops[i].what = "assistantInsert" /\ r.ops[i].res = "err"

(* C21: in the start-new-conversation flow, when the assistant-turn insert
   fails, the response is the 500 'Failed to write message' whether the
   compensating session delete succeeds, returns an error or throws; the
   failure of the delete is never reported in its place. *)
C21_CleanupFailureSwallowed ==
    \A s \in Slots :
        LET r == req[s]
        IN  (GreetingWriteFailed(r) /\ r.pc = "done") =>
                /\ Last(r.ops).what = "cleanup"
                /\ Last(r.ops).res \in Outcomes
                /\ r.status = 500
                /\ r.body = Err("Failed to write message")

(* The delete threw in a request of the new-chat handler, the session is
   still stored, and the request was answered with the write error *)
C21_Witness ==
    \E s \in Slots :
        /\ GreetingWriteFailed(req[s]) /\ req[s].pc = "done"
        /\ req[s].h = "newchat"
        /\ Last(req[s].ops).what = "cleanup" /\ Last(req[s].ops).res = "throw"
        /\ req[s].body = Err("Failed to write message")
        /\ req[s].sessionId \in {x.id : x \in chat_session}

-----------------------------------------------------------------------------
(* The request has been answered with a 4xx or 5xx status *)
AnsweredError(r) == r.pc = "done" /\ r.status >= 400

(* The body is a JSON object with an 'error' string *)
HasErrorField(body) == "error" \in DOMAIN body

(* C23, the part about the field: every response with a 4xx or 5xx status
   carries an 'error' string in its body. *)
C23_ErrorField ==
    \A s \in Slots : AnsweredError(req[s]) => HasErrorField(req[s].body)

(* C23, the part about identifiers: an error body carries a fixed text and
   nothing else, no journey key among it. *)
C23_NoIdentifier ==
    \A s \in Slots :
        (AnsweredError(req[s]) /\ HasErrorField(req[s].body)) => req[s].body.detail = <<>>

(* C23: every response of every handler with a 4xx or 5xx status has a JSON
   object body with a short human-readable 'error' string, and no error body
   exposes an internal identifier (such as a journey key) or the details of
   an exception. *)
C23_ErrorBodies ==
    /\ C23_ErrorField
    /\ C23_NoIdentifier
    /\ \A s \in Slots :
           (AnsweredError(req[s]) /\ req[s].ops # <<>> /\ Last(req[s].ops).res = "throw"
            /\ Last(req[s].ops).what # "cleanup") => req[s].body = Err("Internal server error")

-----------------------------------------------------------------------------
(* The request issues a delete, or is about to *)
Deletes(r) == r.pc = "cleanup" \/ \E i \in 1..Len(r.ops) : r.ops[i].kind = "delete"

(* A new-chat request that created its session and then failed at the prompt
   lookup or at the completion call *)
FailedAfterSessionInsert(r) ==
    /\ r.h = "newchat" /\ r.pc = "done" /\ Passed(r, "sessionInsert")
    /\ Last(r.ops).what \in {"prompt", "complete"}

(* C24: in the new-chat handler a delete is issued only after the
   assistant-turn insert returned an error; a request that fails after the
   session insert because the system prompt is missing, the completion call
   fails or the completion is empty answers 500, issues no delete, and leaves
   the session it created stored without a message. *)
C24_OnlyRecovery ==
    \A s \in Slots :
        LET r == req[s]
        IN  /\ (r.h = "newchat" /\ Deletes(r)) =>
                   /\ Count(r, "cleanup") <= 1
                   /\ \E i \in 1..Len(r.ops) :
                          /\ r.ops[i].what = "assistantInsert" /\ r.ops[i].res = "err"
                          /\ \A j \in (i + 1)..Len(r.ops) : r.ops[j].what = "cleanup"
            /\ FailedAfterSessionInsert(r) =>
                   /\ r.status = 500
                   /\ ~Deletes(r)
                   /\ \E x \in chat_session : x.id = r.sessionId /\ x.user_id = r.userId
                   /\ r.sessionId \notin r.pre.sessions
                   /\ ChatRows(r.sessionId) = {}

(* A new-chat request got an empty completion after it had created its
   session: a 500, and the empty session is still stored *)
C24_Witness ==
    \E s \in Slots :
        /\ FailedAfterSessionInsert(req[s])
        /\ Last(req[s].ops).what = "complete" /\ req[s].groqOk /\ req[s].groqContent = <<>>
        /\ req[s].body = Err("GROQ returned empty response")
        /\ req[s].sessionId \in {x.id : x \in chat_session}

-----------------------------------------------------------------------------
(* C27: a resolve-or-create request that is answered with an error, the 404
   'Journey not found' for a key without an active catalog entry in
   particular, leaves the journeys as they were when it arrived: it has
   inserted no user_journey row. *)
C27_ErrorLeavesNoRow ==
    \A s \in Slots :
        (req[s].h = "resolve" /\ AnsweredError(req[s])) =>
            /\ InsertedJourneys(req[s]) = {}
            /\ {x.id : x \in user_journey} = req[s].pre.journeys

-----------------------------------------------------------------------------
MessageTables == {"chat_message", "user_journey_message"}

(* The conversation table a message table belongs to *)
ConversationTable(table) == IF table = "chat_message" THEN "chat_session" ELSE "user_journey"

(* Call i of the request is a message insert *)
IsMessageInsert(o) == o.kind = "write" /\ o.table \in MessageTables

(* Before call i the request has verified that the caller owns the
   conversation the call addresses, or has created that conversation *)
OwnedBefore(r, i) ==
    \E j \in 1..(i - 1) :
        /\ r.ops[j].ok
        /\ r.ops[j].table = ConversationTable(r.ops[i].table)
        /\ r.ops[j].target = r.ops[i].target
        /\ \/ /\ r.ops[j].what = "verify"
              /\ r.conv # <<>> /\ r.conv[1].id = r.ops[i].target /\ r.conv[1].user_id = r.userId
           \/ r.ops[j].what = "sessionInsert"

(* C28: every message insert of a request targets a conversation the
   authenticated caller of that request owns, one whose ownership the request
   has verified before or one the request has created before with the caller
   as owner; and every conversation a request inserts has the caller as owner. *)
C28_InsertsIntoOwnConversations ==
    \A s \in Slots :
        LET r == req[s]
        IN  r.pc # "idle" =>
            /\ \A i \in 1..Len(r.ops) :
                   IsMessageInsert(r.ops[i]) =>
                       /\ r.userId \in Callers /\ r.ops[1].what = "auth" /\ r.ops[1].res = r.userId
                       /\ OwnedBefore(r, i)
            /\ \A x \in NewChatRows(r) :
                   \E c \in chat_session : c.id = x.session_id /\ c.user_id = r.userId
            /\ \A x \in NewJourneyRows(r) :
                   \E c \in user_journey : c.id = x.user_journey_id /\ c.user_id = r.userId
            /\ \A c \in chat_session : c.id \notin r.pre.sessions => c.user_id = r.userId
            /\ \A c \in user_journey : c.id \notin r.pre.journeys => c.user_id = r.userId

(* After a request that created a session for the caller, a journey reply
   has written both its turns into the caller's journey *)
C28_Witness ==
    \E s \in Slots :
        /\ req[s].h = "journey" /\ req[s].status = 200
        /\ Cardinality(NewJourneyRows(req[s])) = 2
        /\ \E x \in chat_session : x.id \notin {1, 2} /\ x.user_id = req[s].userId

-----------------------------------------------------------------------------
(* s is a prefix of t *)
IsPrefix(s, t) == Len(s) <= Len(t) /\ SubSeq(t, 1, Len(s)) = s

(* The calls a request makes in a step *)
NewCalls(s) ==
    IF Len(req'[s].ops) > Len(req[s].ops)
    THEN {req'[s].ops[i] : i \in (Len(req[s].ops) + 1)..Len(req'[s].ops)} ELSE {}

(* A step in which nothing stored is updated, no message is deleted, and the
   only rows deleted are the session a request in its cleanup step created *)
GrowOnlyStep ==
    /\ IsPrefix(chat_message, chat_message')
    /\ IsPrefix(user_journey_message, user_journey_message')
    /\ user_journey \subseteq user_journey'
    /\ \A x \in chat_session' : (\E y \in chat_session : y.id = x.id) => x \in chat_session
    /\ \A x \in chat_session \ chat_session' :
           \E s \in Slots :
               /\ req[s].pc = "cleanup" /\ x.id = req[s].sessionId
               /\ x.id \notin req[s].pre.sessions
               /\ \E j \in 1..Len(req[s].ops) :
                      /\ req[s].ops[j].what = "sessionInsert" /\ req[s].ops[j].ok
                      /\ req[s].ops[j].target = x.id
    /\ \A s \in Slots : \A o \in NewCalls(s) :
           /\ o.kind \in {"auth", "read", "write", "llm", "delete"}
           /\ o.kind = "delete" => o.table = "chat_session" /\ o.target = req[s].sessionId
           /\ o.kind = "write" => o.table \in MessageTables \cup {"chat_session", "user_journey"}

(* C29: no handler updates or deletes a message row and no handler updates a
   conversation row; the only delete a handler issues is on the chat_session
   row whose id an insert of the same request returned.  Hence, over any
   sequence of requests, the stored messages only grow. *)
C29_MessagesOnlyGrow == [][GrowOnlyStep]_vars

(* A new-chat request on a store holding a conversation of 40 messages has
   deleted the session it created: the messages are all still stored *)
C29_Witness ==
    \E s \in Slots :
        /\ req[s].h = "newchat" /\ req[s].pc = "done" /\ Made(req[s], "cleanup")
        /\ Last(req[s].ops).kind = "delete" /\ Last(req[s].ops).res = "ok"
        /\ req[s].pre.chat = MESSAGE_HISTORY_LIMIT + 1
        /\ Len(chat_message) = req[s].pre.chat
        /\ req[s].pre.sessions = {x.id : x \in chat_session}

-----------------------------------------------------------------------------
(* The ordinals of a conversation's messages increase in insertion order *)
ChatOrdinalsIncrease ==
    \A i, j \in 1..Len(chat_message) :
        (i < j /\ chat_message[i].session_id = chat_message[j].session_id) =>
            chat_message[i].ordinal < chat_message[j].ordinal

JourneyOrdinalsIncrease ==
    \A i, j \in 1..Len(user_journey_message) :
        (i < j /\ user_journey_message[i].user_journey_id = user_journey_message[j].user_journey_id) =>
            user_journey_message[i].ordinal < user_journey_message[j].ordinal

(* The stored row with the id a request's insert returned *)
StoredChat(id) == CHOOSE x \in SeqToSet(chat_message) : x.id = id

(* C22: under any interleaving of concurrent reply requests on one
   conversation, the ordinals of the conversation's stored messages are
   pairwise distinct and strictly increasing in insertion order, and for each
   successful request the ordinal of its assistant turn is greater than the
   ordinal of its own user turn. *)
C22_OrdinalsUnderConcurrency ==
    /\ ChatOrdinalsIncrease
    /\ JourneyOrdinalsIncrease
    /\ \A s \in Slots :
           SucceededReply(req[s]) =>
               /\ req[s].userMsg[1].ordinal < req[s].msg[1].ordinal
               /\ req[s].body.ordinal = req[s].msg[1].ordinal
               /\ req[s].h = "chat" =>
                      /\ StoredChat(req[s].userMsg[1].id).ordinal = req[s].userMsg[1].ordinal
                      /\ StoredChat(req[s].msg[1].id).ordinal = req[s].msg[1].ordinal

(* Two replies in session 1 ran at the same time and both succeeded: the
   two user turns were stored before the two assistant turns *)
C22_Witness ==
    /\ \A s \in Slots : req[s].h = "chat" /\ req[s].handle = 1 /\ SucceededReply(req[s])
    /\ Cardinality(Slots) = 2
    /\ LET m == SelectSeq(chat_message, LAMBDA x : x.session_id = 1)
       IN  /\ Len(m) = 4
           /\ m[1].role = "user" /\ m[2].role = "user"
           /\ m[3].role = "assistant" /\ m[4].role = "assistant"
           /\ m[4].ordinal = 4

-----------------------------------------------------------------------------
(* The request's existence lookup succeeded and returned no row *)
SawNone(r) ==
    /\ r.h = "resolve" /\ Made(r, "lookup")
    /\ r.ops[OpIndex(r, "lookup")].res = "ok" /\ ~r.ops[OpIndex(r, "lookup")].ok

(* The request's insert succeeded *)
Created(r) == r.h = "resolve" /\ Passed(r, "journeyInsert")

(* C25, the part every behaviour satisfies: a resolve-or-create request
   makes one existence lookup and at most one insert, after the lookup; the
   row it inserted stays stored, active, with the caller and the key; it
   issues no delete and no update, and a request that inserted answers with
   the id of its own row, whatever other rows exist by then. *)
C25_OneInsertNoRepair ==
    \A s \in Slots :
        LET r == req[s]
        IN  r.h = "resolve" =>
                /\ Count(r, "lookup") <= 1 /\ Count(r, "journeyInsert") <= 1
                /\ \A i \in 1..Len(r.ops) : r.ops[i].kind \in {"auth", "read", "write"}
                /\ Made(r, "journeyInsert") => OpIndex(r, "lookup") < OpIndex(r, "journeyInsert")
                /\ Created(r) =>
                       /\ [id |-> r.handle, user_id |-> r.userId, journey_key |-> r.key,
                           is_active |-> TRUE] \in user_journey
                       /\ r.ops[OpIndex(r, "journeyInsert")].target = r.handle
                       /\ Last(r.ops).what \in {"journeyInsert", "title"}
                       /\ r.status = 200 => r.body.user_journey_id = r.handle

(* C25: two concurrent resolve-or-create requests of one user for one key,
   started when no active journey exists, have both passed the existence
   lookup before either inserted and have then both inserted: two active
   journeys for that user and key are stored, and both requests answered 200,
   each with its own row. *)
C25_Witness ==
    /\ Cardinality(Slots) = 2
    /\ \A s \in Slots :
           /\ req[s].key = <<"k2">> /\ req[s].userId = "A"
           /\ SawNone(req[s]) /\ Created(req[s])
           /\ req[s].pc = "done" /\ req[s].status = 200
    /\ Cardinality(ActiveJourneys("A", <<"k2">>)) = 2
    /\ \A s1, s2 \in Slots : s1 # s2 => req[s1].body.user_journey_id # req[s2].body.user_journey_id

-----------------------------------------------------------------------------
(* Worker s loads the history of its conversation in this step *)
LoadsHistory(s) == IsReply(req[s]) /\ req[s].pc = "history" /\ req'[s].pc = "groq"

(* A history load of a conversation within the window returns every message
   stored in the conversation at that moment, whichever request wrote it, and
   all of them go into the list for the completion API *)
LoadSeesAllCommitted ==
    \A s \in Slots :
        (LoadsHistory(s) /\ Cardinality(ConvRows(req[s])) <= MESSAGE_HISTORY_LIMIT) =>
            /\ Ids(req'[s].dbMessages) = {x.id : x \in ConvRows(req[s])}
            /\ Len(req'[s].groqMessages) = Cardinality(ConvRows(req[s])) + 1
            /\ \A i \in 1..Len(req'[s].dbMessages) :
                   req'[s].groqMessages[i + 1].content = req'[s].dbMessages[i].content

(* C26, the part every behaviour satisfies: replies on one conversation are
   not isolated from each other; a request's history load returns the user
   turns other requests have committed by then, and they enter its context. *)
C26_NoIsolation == [][LoadSeesAllCommitted]_vars

(* C26: two concurrent replies on session 1: both user turns were committed
   before either history load, both completion calls got a context holding
   both new user turns and nothing else of the conversation, and both
   assistant turns were then committed. *)
C26_Witness ==
    /\ Cardinality(Slots) = 2
    /\ \A s \in Slots :
           /\ req[s].h = "chat" /\ req[s].handle = 1 /\ SucceededReply(req[s])
           /\ Len(req[s].dbMessages) = 2 /\ Len(req[s].groqMessages) = 3
    /\ \A s, s2 \in Slots : req[s2].userMsg[1].id \in Ids(req[s].dbMessages)
    /\ Cardinality({x \in ChatRows(1) : x.role = "assistant"}) = 2

-----------------------------------------------------------------------------
(* The sessions a step deletes *)
DeletedSessions == chat_session \ chat_session'

(* C30: at the moment the compensating cleanup deletes a session, that
   session holds no stored message, under every interleaving with other
   requests of the same user. *)
C30_DeletedSessionIsEmpty == [][\A x \in DeletedSessions : ChatRows(x.id) = {}]_vars

(* The today's-session lookup returns the id of a session whose new-chat
   request is still between its session insert and its assistant insert *)
C30_SessionRevealed ==
    \E s1, s2 \in Slots :
        /\ req[s1].h = "newchat" /\ req[s1].pc \in {"prompt", "groq", "msgInsert"}
        /\ req[s2].h = "today" /\ req[s2].pc = "done" /\ req[s2].status = 200
        /\ req[s2].body.chat_session_id = req[s1].sessionId

-----------------------------------------------------------------------------
(* A request of the earlier new-chat handler whose session insert succeeded *)
LegacyAfterSession(r) == r.h = "legacy" /\ Passed(r, "sessionInsert")

(* The prompt lookup or the completion call of the request did not deliver a text *)
NoGreetingText(r) ==
    \/ \E i \in 1..Len(r.ops) : r.ops[i].what \in {"prompt", "complete"} /\ ~r.ops[i].ok

(* The greeting row the request stored *)
StoredGreeting(r) == {x \in ChatRows(r.sessionId) : x.role = "assistant"}

(* C31: in the earlier new-chat handler, once the session insert has
   succeeded, a missing prompt, a failed completion call, an empty completion
   or an exception in the prompt lookup or the completion call never ends the
   request: the fixed fallback text is used, an assistant insert with a
   non-empty text is always attempted, and the response is 201 unless that
   insert fails. *)
C31_FallbackGreeting ==
    \A s \in Slots :
        LET r == req[s]
        IN  LegacyAfterSession(r) =>
                /\ r.messageText # <<>> /\ Trim(r.messageText) # <<>>
                /\ (Made(r, "prompt") /\ r.pc # "groq" /\ NoGreetingText(r)) => r.messageText = FallbackText
                /\ r.pc = "done" =>
                       /\ Made(r, "prompt") /\ Made(r, "assistantInsert")
                       /\ Passed(r, "assistantInsert") =>
                              /\ r.status = 201
                              /\ r.body.assistant_text = r.messageText
                              /\ \E x \in StoredGreeting(r) : x.content = Obj(r.messageText)
                       /\ ~Passed(r, "assistantInsert") =>
                              /\ r.status = 500
                              /\ Last(r.ops).what \in {"assistantInsert", "cleanup"}

(* The completion call of a request of the earlier handler threw: the request
   stored the fallback text and answered 201 *)
C31_Witness ==
    \E s \in Slots :
        /\ LegacyAfterSession(req[s]) /\ req[s].pc = "done" /\ req[s].status = 201
        /\ Made(req[s], "complete") /\ req[s].ops[OpIndex(req[s], "complete")].res = "throw"
        /\ \E x \in StoredGreeting(req[s]) : x.content = Obj(FallbackText)

-----------------------------------------------------------------------------
(* What a resume request has stored since it arrived: one assistant message
   in its session when it has answered 200, nothing otherwise *)
ResumeStored(r) ==
    /\ Len(user_journey_message) = r.pre.journey
    /\ {x.id : x \in chat_session} = r.pre.sessions
    /\ {x.id : x \in user_journey} = r.pre.journeys
    /\ IF r.pc = "done" /\ r.status = 200
       THEN /\ Len(chat_message) = r.pre.chat + 1
            /\ Last(chat_message).role = "assistant"
            /\ Last(chat_message).session_id = r.handle
            /\ Last(chat_message).content = Str(r.aiResponse)
            /\ Last(chat_message).id = r.body.message_id
       ELSE Len(chat_message) = r.pre.chat

(* No stored message carries the greeting turn of the resume handler *)
GreetingNeverStored == \A i \in 1..Len(chat_message) : chat_message[i].content.kind # "resume_greeting"

(* A step of a resume request: the messages stored before it are unchanged,
   and after it the request has stored what ResumeStored says *)
ResumeStep ==
    \A s \in Slots :
        req'[s].h = "resume" =>
            /\ req[s].h = "resume" => IsPrefix(chat_message, chat_message')
            /\ ResumeStored(req[s])' /\ GreetingNeverStored'

(* C32: a resume request stores exactly one message, the assistant reply,
   when it succeeds and nothing when it fails at any step; the greeting turn
   sent to the completion API is never stored, and the messages the session
   held before are unchanged. *)
C32_ResumeStoresOneMessage == [][ResumeStep]_vars

(* A resume request on the session of 40 messages has answered 200: 41
   messages in the session, the greeting turn sent and not stored *)
C32_Witness ==
    \E s \in Slots :
        /\ req[s].h = "resume" /\ req[s].pc = "done" /\ req[s].status = 200
        /\ Cardinality(ChatRows(req[s].handle)) = MESSAGE_HISTORY_LIMIT + 1
        /\ Last(req[s].groqMessages).content.kind = "resume_greeting"
        /\ GreetingNeverStored

-----------------------------------------------------------------------------
(* The checks a request fails, read off what the client sent *)
WrongMethod(r) == r.method \notin {"OPTIONS", Allowed(r.h)}

NoCredential(r) == r.auth # "Bearer"

TokenRejected(r) == Made(r, "auth") /\ r.ops[1].res = "rejected"

(* C33: the checks run in the order preflight, method, credential, required
   body fields, ownership: an answered request carries the response of the
   first check it fails whatever else is wrong with it, no ownership lookup
   is made unless the token was accepted and the body was complete, and a
   request answered 400 for missing fields has called nothing but the token
   check and left the store as it found it *)
C33_CheckOrder ==
    \A s \in Slots :
        LET r == req[s]
        IN  /\ r.pc = "done" /\ r.method = "OPTIONS" => r.status = 204 /\ r.ops = <<>>
            /\ r.pc = "done" /\ WrongMethod(r) =>
                    r.status = 405 /\ r.body = Err("Method not allowed") /\ r.ops = <<>>
            /\ r.pc = "done" /\ r.method = Allowed(r.h) /\ NoCredential(r) =>
                    r.status = 401 /\ r.body = Err("Unauthorized") /\ r.ops = <<>>
            /\ r.pc = "done" /\ TokenRejected(r) =>
                    r.status = 401 /\ r.body = Err("Unauthorized") /\ Len(r.ops) = 1
            /\ r.pc = "done" /\ Passed(r, "auth") /\ r.sent = "missing" =>
                    /\ r.status = 400
                    /\ r.body = Err(MissingFieldsError(r.h))
                    /\ Len(r.ops) = 1
                    /\ StoreAsOnArrival(r)
            /\ r.pc # "idle" /\ CallsBeyondAuth(r) # {} =>
                    /\ r.method = Allowed(r.h)
                    /\ ~NoCredential(r)
                    /\ Passed(r, "auth")
                    /\ r.sent \in {"none", "complete"}
                    /\ r.ops[1].kind = "auth"

(* A journey reply whose token was rejected and whose body lacked a field has
   been answered 401 *)
C33_Witness ==
    \E s \in Slots :
        /\ req[s].pc = "done" /\ req[s].h = "journey"
        /\ TokenRejected(req[s]) /\ req[s].sent = "missing" /\ req[s].status = 401

(* A chat reply with an accepted token and a field missing has been answered 400 *)
C33_MissingFieldsAnswered ==
    \E s \in Slots :
        /\ req[s].pc = "done" /\ req[s].h = "chat"
        /\ Passed(req[s], "auth") /\ req[s].sent = "missing" /\ req[s].status = 400

-----------------------------------------------------------------------------
(* The handlers that only read *)
ReadOnlyHandlers == {"list", "today"}

(* A step of a request to a read-only handler, its arrival included, leaves
   every table and the id counter as they were and calls nothing but the
   token check and store reads *)
ReadOnlyStep ==
    \A s \in Slots :
        (req'[s].h \in ReadOnlyHandlers /\ req'[s] # req[s]) =>
            /\ store' = store
            /\ nextId' = nextId
            /\ \A o \in NewCalls(s) : o.kind \in {"auth", "read"}

(* C34: the catalog listing and the today's-session lookup are read-only: on
   every path they issue no insert, update, delete or completion call, and
   the store after the request equals the store before it *)
C34_ReadOnly == [][ReadOnlyStep]_vars

(* A today's-session lookup has answered 200 with the latest message of a
   session that has messages *)
C34_Witness ==
    \E s \in Slots :
        /\ req[s].h = "today" /\ req[s].pc = "done" /\ req[s].status = 200
        /\ req[s].body.latest_message # <<>>
        /\ Len(req[s].ops) = 3
        /\ StoreAsOnArrival(req[s])

(* A catalog listing has failed at its query, and one has answered the catalog *)
C34_ListFailed ==
    \E s \in Slots :
        /\ req[s].h = "list" /\ req[s].pc = "done" /\ req[s].status = 500
        /\ Made(req[s], "catalog")

C34_ListAnswered ==
    \E s \in Slots :
        /\ req[s].h = "list" /\ req[s].pc = "done" /\ req[s].status = 200
        /\ req[s].body.count > 0

-----------------------------------------------------------------------------
(* The calls a handler awaits inside an inner try block whose catch goes on *)
Swallowed(h) ==
    IF h = "legacy" THEN {"profile", "prompt", "complete", "cleanup"}
    ELSE IF h = "newchat" THEN {"profile", "cleanup"}
    ELSE IF h \in {"resume", "kickoff"} THEN {"profile"}
    ELSE {}

(* The calls of a request that threw, all of them and those outside the
   inner try blocks *)
Thrown(r) == {i \in 1..Len(r.ops) : r.ops[i].res = "throw"}

ThrownToHandler(r) == {i \in Thrown(r) : r.ops[i].what \notin Swallowed(r.h)}

AnswersInternalError(r) == r.pc = "done" /\ r.status = 500 /\ r.body = Err("Internal server error")

(* An exception that reaches the handler's catch ends the request at once
   with 500 'Internal server error'; so does a body that is not JSON *)
ThrowsAnswered ==
    \A s \in Slots :
        /\ \A i \in ThrownToHandler(req[s]) : i = Len(req[s].ops) /\ AnswersInternalError(req[s])
        /\ Passed(req[s], "auth") /\ req[s].sent = "invalid" => AnswersInternalError(req[s])

(* A response, once given, stays as it is until the worker takes the next request *)
OneResponseStep ==
    \A s \in Slots :
        (req[s].pc = "done" /\ req'[s] # req[s]) => (started' = started + 1 /\ req'[s].ops = <<>>)

(* Every request received is answered *)
EveryRequestAnswered == \A s \in Workers : (req[s].pc \notin {"idle", "done"}) ~> (req[s].pc = "done")

(* C35: if every awaited call returns or throws, every request is answered,
   and answered once; an exception thrown by a call outside the inner try
   blocks (profile lookup, compensating delete, the prompt and completion
   block of the handler under src/functions) is answered 500 'Internal
   server error' *)
C35_Responds == EveryRequestAnswered /\ [][OneResponseStep]_vars /\ []ThrowsAnswered

(* C35 as stated: every request is answered once, and an exception thrown at
   any step is answered 500 'Internal server error' *)
C35_EveryThrowIs500 ==
    /\ EveryRequestAnswered
    /\ [][OneResponseStep]_vars
    /\ [](\A s \in Slots : req[s].pc = "done" /\ Thrown(req[s]) # {} => AnswersInternalError(req[s]))

(* A start-new-conversation request whose profile lookup threw and was
   passed over, and whose completion call then threw, has been answered 500
   'Internal server error' *)
C35_Witness ==
    \E s \in Slots :
        /\ req[s].h = "newchat" /\ AnswersInternalError(req[s])
        /\ \E i, j \in Thrown(req[s]) :
              /\ i < j
              /\ req[s].ops[i].what = "profile"
              /\ req[s].ops[j].what = "complete"

(* A start-new-conversation request whose profile lookup threw has been answered 201 *)
C35_SwallowedThrow ==
    \E s \in Slots :
        /\ req[s].h = "newchat" /\ req[s].pc = "done" /\ req[s].status = 201
        /\ \E i \in Thrown(req[s]) : req[s].ops[i].what = "profile"

-----------------------------------------------------------------------------
(* The caller's sessions of the current UTC day, and the latest of a set *)
InWindow(x) == x.created_at >= TodayStart(now) /\ x.created_at < TodayEnd(now)

Mine(r) == {x \in chat_session : x.user_id = r.userId /\ InWindow(x)}

Greatest(x, rows) == x \in rows /\ \A y \in rows : y.created_at <= x.created_at

NoSessionBody == [chat_session_id |-> NoHandle, message |-> "No chat session found for today"]

(* C36: the today's-session lookup answers with the caller's session of the
   current UTC day window [today 00:00, tomorrow 00:00) that has the
   greatest creation time, never one of another user or of another day, and
   answers 404 with chat_session_id null when the caller has none; a
   latest-message lookup that returns an error or no row gives
   latest_message null in a 200 *)
C36_TodaysLatestSession ==
    \A s \in Slots :
        LET r == req[s]
        IN  r.h = "today" =>
              /\ (r.pc = "done" /\ r.status = 200) =>
                    /\ Passed(r, "session")
                    /\ \E x \in chat_session :
                          /\ x.id = r.body.chat_session_id
                          /\ x.user_id = r.userId
                          /\ InWindow(x)
                          /\ Greatest(x, Mine(r))
              /\ (r.pc = "done" /\ r.status = 404) =>
                    Passed(r, "session") /\ Mine(r) = {} /\ r.body = NoSessionBody
              /\ (Passed(r, "session") /\ Mine(r) = {}) => (r.pc = "done" /\ r.status = 404)
              /\ (Made(r, "latest") /\ Last(r.ops).res = "err") =>
                    r.pc = "done" /\ r.status = 200 /\ r.body.latest_message = <<>>
              /\ (Passed(r, "latest") /\ ChatRows(r.sessionId) = {}) =>
                    r.pc = "done" /\ r.status = 200 /\ r.body.latest_message = <<>>

(* A lookup has answered with a session of today while the caller owns an
   older session created before the window and another user owns a session,
   and the lookup of its latest message returned an error *)
C36_Witness ==
    \E s \in Slots :
        /\ req[s].h = "today" /\ req[s].pc = "done" /\ req[s].status = 200
        /\ \E x \in chat_session : x.user_id = req[s].userId /\ x.created_at < TodayStart(now)
        /\ \E x \in chat_session : x.user_id # req[s].userId
        /\ Last(req[s].ops).res = "err"
        /\ req[s].body.latest_message = <<>>

(* A lookup has answered 404 while the caller owns a session of an earlier day *)
C36_NoneToday ==
    \E s \in Slots :
        /\ req[s].h = "today" /\ req[s].pc = "done" /\ req[s].status = 404
        /\ \E x \in chat_session : x.user_id = req[s].userId /\ ~InWindow(x)

(* A lookup has answered with the later of two sessions of the caller created today *)
C36_LaterOfTwo ==
    \E s \in Slots :
        /\ req[s].h = "today" /\ req[s].pc = "done" /\ req[s].status = 200
        /\ Cardinality(Mine(req[s])) > 1
        /\ \E x \in Mine(req[s]) : x.created_at < req[s].body.created_at

====
